---- MODULE Spec2Model ----
(***************************************************************************)
(* A model of the reconciliation core of activity-info-runner:            *)
(*   - scripts/changeset.py : match_resources, _are_values_equal,         *)
(*     generate_record_changes, generate_field_changes,                   *)
(*     generate_form_changes, generate_changeset                          *)
(*   - scripts/boundaries.py: with_semaphore and the materialization      *)
(*     fan-out under the module-level CONCURRENCY_LIMIT                   *)
(* Python values are tagged records so that values of different Python    *)
(* types are never identified by accident.                                *)
(***************************************************************************)
EXTENDS Integers, Sequences, FiniteSets, TLC

VARIABLES
    pc,         \* position of the matcher run: "start" | "done"
    current,    \* match_resources: the `current` list
    desired,    \* match_resources: the `desired` list
    result,     \* match_resources: (matched, deletes, creates, warnings)
    stage,                  \* pipeline stage: "materialized" | "derive" | "done"
    materialized_boundary,  \* the current SchemaSnapshot
    desired_schema,         \* the desired SchemaSnapshot
    outcome,                \* what generate_changeset returned or that it raised
    edits,                  \* number of changes made to the snapshots so far
    rstage,       \* generate_record_changes: "start" | "done"
    cur_records,  \* its argument current_records
    des_records,  \* its argument desired_records
    changes,      \* what it returned or that it raised
    mstage,             \* materialize_boundary: "listing" | "boundaries" | "done" | "failed"
    script_boundary,    \* its argument: per database boundary the databases it matches and
                        \* the number of its form boundaries
    remote_forms,       \* per remote database, the number of forms a form boundary matches
    boundary_index,     \* position of the `for database_boundary in ...` loop
    tasks,              \* the tasks of the current gather, one per matching database
    permits,            \* CONCURRENCY_LIMIT._value
    istage,               \* match_identifier: "start" | "done"
    identifier,           \* its argument identifier
    identifier_is_regex,  \* its argument is_regex
    items_dict,           \* its argument items, a dict in insertion order
    matching_items,       \* the list it returned
    vstage,        \* materialize_boundary on answered calls: "start" | "done"
    boundaries,    \* its argument, a ScriptBoundary
    remote,        \* what the remote platform answers
    materialized,  \* the (SchemaSnapshot, warnings) it returned
    cstage,           \* Changeset operations: "start" | "done"
    self_changeset,   \* the left operand of __add__, receiver of __len__ and to_dict
    other_changeset,  \* the right operand of __add__
    sum_changeset,    \* self + other
    wire,             \* self.to_dict()
    restored,         \* the Changeset validated from wire, or the ValidationError
    wstage,      \* AIRScript.execute: the activity awaited, "returned" or "failed"
    attempt,     \* number of the running attempt of that activity
    started,     \* the activities started so far, one entry per attempt
    execution,   \* what execute returned
    qstage,           \* ActivityInfoHTTPClient.request: "loop" | "awaiting" | "sleeping" | "done"
    retries,          \* its argument retries
    request_attempt,  \* the loop variable `attempt`
    exchanges,        \* the HTTP attempts made so far and how each one ended
    slept,            \* the delays passed to asyncio.sleep so far
    request_outcome,  \* what request returned or the exception it raised
    fstage,         \* collect_field_mappings: "loop" | "fetching" | "returned"
    platform,       \* the form schemas of the platform and the forms whose fetch fails
    start_form_id,  \* its argument start_form_id
    form_id_local,  \* the local variable form_id
    mappings,       \* the local variable mappings, a dict in insertion order
    visited_forms,  \* the local variable visited_forms
    pending_forms,  \* the local variable pending_forms
    fetches,        \* the form ids passed to get_form_schema so far
    fan_stage,           \* materialize_boundary over like databases: "listing" | "joining" | "returned" | "raised"
    matching_count,      \* number of databases its one database boundary matches
    forms_per_database,  \* number of forms its one form boundary matches in each of them
    crowd,               \* number of database tasks at each point of with_semaphore(materialize_form_boundaries(...))
    slots                \* CONCURRENCY_LIMIT._value

matchVars == <<pc, current, desired, result>>
diffVars == <<stage, materialized_boundary, desired_schema, outcome, edits>>
recVars == <<rstage, cur_records, des_records, changes>>
vars == <<pc, current, desired, result, stage, materialized_boundary, desired_schema, outcome, edits,
          rstage, cur_records, des_records, changes,
          mstage, script_boundary, remote_forms, boundary_index, tasks, permits,
          istage, identifier, identifier_is_regex, items_dict, matching_items,
          vstage, boundaries, remote, materialized,
          cstage, self_changeset, other_changeset, sum_changeset, wire, restored,
          wstage, attempt, started, execution,
          qstage, retries, request_attempt, exchanges, slept, request_outcome,
          fstage, platform, start_form_id, form_id_local, mappings, visited_forms, pending_forms, fetches,
          fan_stage, matching_count, forms_per_database, crowd, slots>>
idVars == <<istage, identifier, identifier_is_regex, items_dict, matching_items>>
resVars == <<vstage, boundaries, remote, materialized>>
csVars == <<cstage, self_changeset, other_changeset, sum_changeset, wire, restored>>
exVars == <<wstage, attempt, started, execution>>
rqVars == <<qstage, retries, request_attempt, exchanges, slept, request_outcome>>
foVars == <<fan_stage, matching_count, forms_per_database, crowd, slots>>
fmVars == <<fstage, platform, start_form_id, form_id_local, mappings, visited_forms, pending_forms, fetches>>
matVars == <<mstage, script_boundary, remote_forms, boundary_index, tasks, permits>>

\* ------------------------------------------------------------------------
\* Python values
\* ------------------------------------------------------------------------
NoneV == [t |-> "none", s |-> "", n |-> 0]
Str(x) == [t |-> "str", s |-> x, n |-> 0]
Num(k) == [t |-> "num", s |-> "", n |-> k]
Bool(b) == [t |-> "bool", s |-> "", n |-> IF b THEN 1 ELSE 0]

\* Python truthiness, as used by `if ident:`
Truthy(v) ==
    \/ v.t = "str" /\ v.s # ""
    \/ v.t \in {"num", "bool"} /\ v.n # 0

\* Python `==` on scalars: bool is a subclass of int, so True == 1; a str, a
\* number and None are never equal to one another.
PyEq(a, b) ==
    \/ a.t \in {"num", "bool"} /\ b.t \in {"num", "bool"} /\ a.n = b.n
    \/ a.t = "str" /\ b.t = "str" /\ a.s = b.s
    \/ a.t = "none" /\ b.t = "none"

SetMax(S) == CHOOSE x \in S : \A y \in S : y <= x
SetMin(S) == CHOOSE x \in S : \A y \in S : x <= y

\* the members of a set of indices, in increasing order
RECURSIVE Ascending(_)
Ascending(S) ==
    IF S = {} THEN <<>>
    ELSE LET m == SetMax(S) IN Append(Ascending(S \ {m}), m)

Range(f) == {f[i] : i \in DOMAIN f}

\* ------------------------------------------------------------------------
\* match_resources
\* ------------------------------------------------------------------------

\* Phase 1 with an index that keeps the FIRST position of an identifier
\* (as `setdefault` would) instead of the last.
RECURSIVE Phase1_FirstWins(_, _, _)
Phase1_FirstWins(curIds, desIds, f) ==
    IF f > Len(curIds) THEN <<>>
    ELSE LET v == curIds[f]
             isNewKey == Truthy(v) /\ \A j \in 1..(f - 1) : ~PyEq(curIds[j], v)
             ds == {j \in DOMAIN desIds : Truthy(desIds[j]) /\ PyEq(desIds[j], v)}
         IN (IF isNewKey /\ ds # {}
             THEN << <<f, CHOOSE j \in ds : \A k \in ds : j <= k>> >>
             ELSE <<>>) \o Phase1_FirstWins(curIds, desIds, f + 1)

\* Phase 1.  current_by_id / desired_by_id map each truthy identifier to the
\* LAST position carrying it; items() iterates in order of first insertion.
RECURSIVE Phase1(_, _, _)
Phase1(curIds, desIds, f) ==
    IF f > Len(curIds) THEN <<>>
    ELSE LET v == curIds[f]
             isNewKey == Truthy(v) /\ \A j \in 1..(f - 1) : ~PyEq(curIds[j], v)
             cs == {i \in DOMAIN curIds : Truthy(curIds[i]) /\ PyEq(curIds[i], v)}
             ds == {j \in DOMAIN desIds : Truthy(desIds[j]) /\ PyEq(desIds[j], v)}
         IN (IF isNewKey /\ ds # {}
             THEN << <<SetMax(cs), SetMax(ds)>> >>
             ELSE <<>>) \o Phase1(curIds, desIds, f + 1)

\* Phase 2 without `desired_by_fallback[key].remove(desired_idx)`.
RECURSIVE Phase2_KeepCandidate(_, _, _, _, _)
Phase2_KeepCandidate(curKeys, desKeys, ucur, avail, acc) ==
    IF ucur = <<>> THEN acc
    ELSE LET current_idx == Head(ucur)
             key == curKeys[current_idx]
             candidate_indices == {j \in avail : desKeys[j] = key}
         IN IF Cardinality(candidate_indices) = 1
            THEN LET desired_idx == CHOOSE j \in candidate_indices : TRUE
                 IN Phase2_KeepCandidate(curKeys, desKeys, Tail(ucur), avail,
                           [acc EXCEPT !.matched = Append(@, <<current_idx, desired_idx>>)])
            ELSE IF Cardinality(candidate_indices) > 1
            THEN Phase2_KeepCandidate(curKeys, desKeys, Tail(ucur), avail,
                        [acc EXCEPT !.warnings = Append(@, key)])
            ELSE Phase2_KeepCandidate(curKeys, desKeys, Tail(ucur), avail, acc)

\* Phase 2 that resolves an ambiguity by taking the first candidate.
RECURSIVE Phase2_PickFirst(_, _, _, _, _)
Phase2_PickFirst(curKeys, desKeys, ucur, avail, acc) ==
    IF ucur = <<>> THEN acc
    ELSE LET current_idx == Head(ucur)
             key == curKeys[current_idx]
             candidate_indices == {j \in avail : desKeys[j] = key}
         IN IF Cardinality(candidate_indices) >= 1
            THEN LET desired_idx == CHOOSE j \in candidate_indices : \A k \in candidate_indices : j <= k
                 IN Phase2_PickFirst(curKeys, desKeys, Tail(ucur), avail \ {desired_idx},
                           [acc EXCEPT !.matched = Append(@, <<current_idx, desired_idx>>)])
            ELSE Phase2_PickFirst(curKeys, desKeys, Tail(ucur), avail, acc)

\* Phase 2 that takes every listed desired position as a candidate, whatever
\* its key.
RECURSIVE Phase2_IgnoreKey(_, _, _, _, _)
Phase2_IgnoreKey(curKeys, desKeys, ucur, avail, acc) ==
    IF ucur = <<>> THEN acc
    ELSE LET current_idx == Head(ucur)
             key == curKeys[current_idx]
             candidate_indices == avail
         IN IF Cardinality(candidate_indices) = 1
            THEN LET desired_idx == CHOOSE j \in candidate_indices : TRUE
                 IN Phase2_IgnoreKey(curKeys, desKeys, Tail(ucur), avail \ {desired_idx},
                           [acc EXCEPT !.matched = Append(@, <<current_idx, desired_idx>>)])
            ELSE IF Cardinality(candidate_indices) > 1
            THEN Phase2_IgnoreKey(curKeys, desKeys, Tail(ucur), avail,
                        [acc EXCEPT !.warnings = Append(@, key)])
            ELSE Phase2_IgnoreKey(curKeys, desKeys, Tail(ucur), avail, acc)

\* Phase 2.  `ucur` are the current positions left by phase 1 (ascending),
\* `avail` the desired positions still listed in desired_by_fallback.
RECURSIVE Phase2(_, _, _, _, _)
Phase2(curKeys, desKeys, ucur, avail, acc) ==
    IF ucur = <<>> THEN acc
    ELSE LET current_idx == Head(ucur)
             key == curKeys[current_idx]
             candidate_indices == {j \in avail : desKeys[j] = key}
         IN IF Cardinality(candidate_indices) = 1
            THEN LET desired_idx == CHOOSE j \in candidate_indices : TRUE
                 IN Phase2(curKeys, desKeys, Tail(ucur), avail \ {desired_idx},
                           [acc EXCEPT !.matched = Append(@, <<current_idx, desired_idx>>)])
            ELSE IF Cardinality(candidate_indices) > 1
            THEN Phase2(curKeys, desKeys, Tail(ucur), avail,
                        [acc EXCEPT !.warnings = Append(@, key)])
            ELSE Phase2(curKeys, desKeys, Tail(ucur), avail, acc)

FinalDeletes(n, matched) ==
    Ascending({i \in 1..n : \A p \in Range(matched) : p[1] # i})

FinalCreates(n, matched) ==
    Ascending({j \in 1..n : \A p \in Range(matched) : p[2] # j})

\* match_resources with phase 2 offered every desired element instead of the
\* ones phase 1 left unmatched
match_resources_AllDesired(curIds, curKeys, desIds, desKeys) ==
    LET byId == Phase1(curIds, desIds, 1)
        unmatched_current == FinalDeletes(Len(curIds), byId)
        p2 == Phase2(curKeys, desKeys, unmatched_current, DOMAIN desIds,
                     [matched |-> byId, warnings |-> <<>>])
    IN [matched  |-> p2.matched,
        deletes  |-> FinalDeletes(Len(curIds), p2.matched),
        creates  |-> FinalCreates(Len(desIds), p2.matched),
        warnings |-> p2.warnings]

\* The matcher on positions: matched is a sequence of <<current, desired>>
\* position pairs, deletes/creates are sequences of positions, warnings the
\* sequence of keys named by the "Ambiguous fallback match" messages.
match_resources(curIds, curKeys, desIds, desKeys) ==
    LET byId == Phase1(curIds, desIds, 1)
        unmatched_current == FinalDeletes(Len(curIds), byId)
        unmatched_desired == Range(FinalCreates(Len(desIds), byId))
        p2 == Phase2(curKeys, desKeys, unmatched_current, unmatched_desired,
                     [matched |-> byId, warnings |-> <<>>])
    IN [matched  |-> p2.matched,
        deletes  |-> FinalDeletes(Len(curIds), p2.matched),
        creates  |-> FinalCreates(Len(desIds), p2.matched),
        warnings |-> p2.warnings]

\* ------------------------------------------------------------------------
\* The hierarchical differ
\* ------------------------------------------------------------------------
ORIGIN == "generate_changeset"

\* dict.get(key): None when the key is absent
Get(r, key) == IF key \in DOMAIN r THEN r[key] ELSE NoneV

NormalizeNone(v) == IF v.t = "none" THEN Str("") ELSE v

are_values_equal(val1, val2) ==
    \/ PyEq(val1, val2)
    \/ PyEq(NormalizeNone(val1), NormalizeNone(val2))

\* pydantic validation of a `str` attribute: only a str is accepted
IsStr(v) == v.t = "str"

\* pydantic validation of `str | float | int | None`: a bool is taken as the
\* number it equals, anything that is no scalar is rejected
IsScalar(v) == v.t \in {"none", "str", "num", "bool"}
AsScalar(v) == IF v.t = "bool" THEN Num(v.n) ELSE v

\* ---- actions (scripts/models.py) ----
RecordDeleteAction(form_id, record_id) ==
    [level |-> "record", TYPE |-> "DELETE", origin |-> ORIGIN, form_id |-> form_id,
     record_id |-> record_id, parent_record_id |-> NoneV]

RecordCreateAction(form_id, fields) ==
    [level |-> "record", TYPE |-> "CREATE", origin |-> ORIGIN, form_id |-> form_id,
     record_id |-> Str(""), parent_record_id |-> NoneV, fields |-> fields]

\* RecordUpdateAction built with the old and the new value exchanged
RecordUpdateAction_Swapped(form_id, record_id, field_code, field_value, old_field_value) ==
    [level |-> "record", TYPE |-> "UPDATE", origin |-> ORIGIN, form_id |-> form_id,
     record_id |-> record_id, parent_record_id |-> NoneV, field_code |-> field_code,
     field_value |-> AsScalar(old_field_value), old_field_value |-> AsScalar(field_value)]

RecordUpdateAction(form_id, record_id, field_code, field_value, old_field_value) ==
    [level |-> "record", TYPE |-> "UPDATE", origin |-> ORIGIN, form_id |-> form_id,
     record_id |-> record_id, parent_record_id |-> NoneV, field_code |-> field_code,
     field_value |-> AsScalar(field_value), old_field_value |-> AsScalar(old_field_value)]

FieldDeleteAction(database_id, form_id, field_id) ==
    [level |-> "field", TYPE |-> "DELETE", origin |-> ORIGIN, database_id |-> database_id,
     form_id |-> form_id, field_id |-> field_id]

\* model_dump(exclude={'id'})
FieldDump(field) == [code |-> field.code, label |-> field.label]

\* FieldCreateAction(origin=, database_id=, form_id=, **field.model_dump(exclude={'id'})):
\* the call passes no field_id
FieldCreateAction(database_id, form_id, field) ==
    [level |-> "field", TYPE |-> "CREATE", origin |-> "reconciler", database_id |-> database_id,
     form_id |-> form_id, payload |-> FieldDump(field)]

FieldUpdateAction(database_id, form_id, field_id, old_field, new_field) ==
    [level |-> "field", TYPE |-> "UPDATE", origin |-> "reconciler", database_id |-> database_id,
     form_id |-> form_id, field_id |-> field_id, old_field |-> old_field, new_field |-> new_field]

FormDeleteAction(form_id, database_id) ==
    [level |-> "form", TYPE |-> "DELETE", origin |-> ORIGIN, form_id |-> form_id, database_id |-> database_id]

FormCreateAction(label, database_id) ==
    [level |-> "form", TYPE |-> "CREATE", origin |-> ORIGIN, form_id |-> "", database_id |-> database_id,
     label |-> label]

FormUpdateAction(form_id, database_id, old_label, new_label) ==
    [level |-> "form", TYPE |-> "UPDATE", origin |-> ORIGIN, form_id |-> form_id, database_id |-> database_id,
     old_label |-> old_label, new_label |-> new_label]

DatabaseDeleteAction(database_id) ==
    [level |-> "database", TYPE |-> "DELETE", origin |-> ORIGIN, database_id |-> database_id]

DatabaseCreateAction(label, description) ==
    [level |-> "database", TYPE |-> "CREATE", origin |-> ORIGIN, database_id |-> "", label |-> label,
     description |-> description]

DatabaseUpdateAction(database_id, old_database, new_database) ==
    [level |-> "database", TYPE |-> "UPDATE", origin |-> ORIGIN, database_id |-> database_id,
     old_database |-> old_database, new_database |-> new_database]

\* Whether pydantic accepts the action as constructed.  RecordBase.record_id
\* and FieldBase.field_id are required `str` attributes; the value attributes
\* of a Record-Update must be scalars.  Form and database actions only carry
\* attributes that are `str` in FormSchema / DatabaseSchema.
Validates(a) ==
    CASE a.level = "record" ->
            /\ IsStr(a.record_id)
            /\ a.TYPE = "UPDATE" => IsScalar(a.field_value) /\ IsScalar(a.old_field_value)
      [] a.level = "field" -> "field_id" \in DOMAIN a /\ IsStr(a.field_id)
      [] OTHER -> TRUE

AllValidate(actions) == \A k \in DOMAIN actions : Validates(actions[k])

\* The lists a differ function fills (actions of each level, warnings) are
\* kept as one sequence in the order of the appends; every entry names its
\* list in `level`.
Warning(key) == [level |-> "warning", key |-> key]
Warnings(keys) == [k \in DOMAIN keys |-> Warning(keys[k])]
ActionsAt(items, level) == SelectSeq(items, LAMBDA a : a.level = level)
WarningsOf(items) == [k \in DOMAIN ActionsAt(items, "warning") |-> ActionsAt(items, "warning")[k].key]

\* ---- records ----
RecordId(r) == Get(r, "@id")
RecordFallbackKey(r) == ""

\* the keys of a record dict in iteration order
KeyOrder == <<"@id", "AMT", "NOTE">>

RECURSIVE RecordPairUpdates(_, _, _, _)
RecordPairUpdates(form_id, current_r, desired_r, codes) ==
    IF codes = <<>> THEN <<>>
    ELSE (IF Head(codes) \in DOMAIN desired_r
             /\ ~are_values_equal(Get(current_r, Head(codes)), desired_r[Head(codes)])
          THEN << RecordUpdateAction(form_id, RecordId(current_r), Head(codes),
                                     desired_r[Head(codes)], Get(current_r, Head(codes))) >>
          ELSE <<>>) \o RecordPairUpdates(form_id, current_r, desired_r, Tail(codes))

RECURSIVE RecordUpdates(_, _, _, _, _)
RecordUpdates(form_id, current_records, desired_records, matches, k) ==
    IF k > Len(matches) THEN <<>>
    ELSE RecordPairUpdates(form_id, current_records[matches[k][1]],
                           desired_records[matches[k][2]], KeyOrder)
         \o RecordUpdates(form_id, current_records, desired_records, matches, k + 1)

MatchRecords(current_records, desired_records) ==
    match_resources([i \in DOMAIN current_records |-> RecordId(current_records[i])],
                    [i \in DOMAIN current_records |-> RecordFallbackKey(current_records[i])],
                    [j \in DOMAIN desired_records |-> RecordId(desired_records[j])],
                    [j \in DOMAIN desired_records |-> RecordFallbackKey(desired_records[j])])

\* the body of generate_record_changes after `m = match_resources(...)`
RecordChanges(form_id, current_records, desired_records, m) ==
    Warnings(m.warnings)
    \o [k \in DOMAIN m.deletes |->
           RecordDeleteAction(form_id, RecordId(current_records[m.deletes[k]]))]
    \o [k \in DOMAIN m.creates |->
           RecordCreateAction(form_id, desired_records[m.creates[k]])]
    \o RecordUpdates(form_id, current_records, desired_records, m.matched, 1)

generate_record_changes(form_id, current_records, desired_records) ==
    RecordChanges(form_id, current_records, desired_records,
                  MatchRecords(current_records, desired_records))

\* ---- fields ----
FieldId(f) == f.id
FieldFallbackKey(f) == IF Truthy(f.code) THEN f.code.s ELSE f.label

RECURSIVE FieldUpdates(_, _, _, _, _, _)
FieldUpdates(database_id, form_id, current_fields, desired_fields, matches, k) ==
    IF k > Len(matches) THEN <<>>
    ELSE (IF FieldDump(current_fields[matches[k][1]]) # FieldDump(desired_fields[matches[k][2]])
          THEN << FieldUpdateAction(database_id, form_id, current_fields[matches[k][1]].id,
                                    current_fields[matches[k][1]], desired_fields[matches[k][2]]) >>
          ELSE <<>>)
         \o FieldUpdates(database_id, form_id, current_fields, desired_fields, matches, k + 1)

MatchFields(current_fields, desired_fields) ==
    match_resources([i \in DOMAIN current_fields |-> FieldId(current_fields[i])],
                    [i \in DOMAIN current_fields |-> FieldFallbackKey(current_fields[i])],
                    [j \in DOMAIN desired_fields |-> FieldId(desired_fields[j])],
                    [j \in DOMAIN desired_fields |-> FieldFallbackKey(desired_fields[j])])

\* the body of generate_field_changes after `m = match_resources(...)`
FieldChanges(database_id, form_id, current_fields, desired_fields, m) ==
    Warnings(m.warnings)
    \o [k \in DOMAIN m.deletes |->
           FieldDeleteAction(database_id, form_id, current_fields[m.deletes[k]].id)]
    \o [k \in DOMAIN m.creates |->
           FieldCreateAction(database_id, form_id, desired_fields[m.creates[k]])]
    \o FieldUpdates(database_id, form_id, current_fields, desired_fields, m.matched, 1)

generate_field_changes(database_id, form_id, current_fields, desired_fields) ==
    FieldChanges(database_id, form_id, current_fields, desired_fields,
                 MatchFields(current_fields, desired_fields))

\* ---- forms ----
RECURSIVE FormMatchChanges(_, _, _, _, _)
FormMatchChanges(database_id, current_forms, desired_forms, matches, k) ==
    IF k > Len(matches) THEN <<>>
    ELSE (IF current_forms[matches[k][1]].label # desired_forms[matches[k][2]].label
          THEN << FormUpdateAction(current_forms[matches[k][1]].id,
                                   current_forms[matches[k][1]].databaseId,
                                   current_forms[matches[k][1]].label,
                                   desired_forms[matches[k][2]].label) >>
          ELSE <<>>)
         \o generate_field_changes(database_id, current_forms[matches[k][1]].id,
                                   current_forms[matches[k][1]].fields,
                                   desired_forms[matches[k][2]].fields)
         \o generate_record_changes(current_forms[matches[k][1]].id,
                                    current_forms[matches[k][1]].records,
                                    desired_forms[matches[k][2]].records)
         \o FormMatchChanges(database_id, current_forms, desired_forms, matches, k + 1)

MatchForms(current_forms, desired_forms) ==
    match_resources([i \in DOMAIN current_forms |-> Str(current_forms[i].id)],
                    [i \in DOMAIN current_forms |-> current_forms[i].label],
                    [j \in DOMAIN desired_forms |-> Str(desired_forms[j].id)],
                    [j \in DOMAIN desired_forms |-> desired_forms[j].label])

\* the body of generate_form_changes after `m = match_resources(...)`
FormChanges(database_id, current_forms, desired_forms, m) ==
    Warnings(m.warnings)
    \o [k \in DOMAIN m.deletes |->
           FormDeleteAction(current_forms[m.deletes[k]].id, current_forms[m.deletes[k]].databaseId)]
    \o [k \in DOMAIN m.creates |->
           FormCreateAction(desired_forms[m.creates[k]].label, desired_forms[m.creates[k]].databaseId)]
    \o FormMatchChanges(database_id, current_forms, desired_forms, m.matched, 1)

generate_form_changes(database_id, current_forms, desired_forms) ==
    FormChanges(database_id, current_forms, desired_forms, MatchForms(current_forms, desired_forms))

\* ---- databases ----
RECURSIVE DatabaseMatchChanges(_, _, _, _)
DatabaseMatchChanges(current_dbs, desired_dbs, matches, k) ==
    IF k > Len(matches) THEN <<>>
    ELSE (IF \/ current_dbs[matches[k][1]].label # desired_dbs[matches[k][2]].label
             \/ current_dbs[matches[k][1]].description # desired_dbs[matches[k][2]].description
          THEN << DatabaseUpdateAction(current_dbs[matches[k][1]].databaseId,
                                       current_dbs[matches[k][1]], desired_dbs[matches[k][2]]) >>
          ELSE <<>>)
         \o generate_form_changes(current_dbs[matches[k][1]].databaseId,
                                  current_dbs[matches[k][1]].forms, desired_dbs[matches[k][2]].forms)
         \o DatabaseMatchChanges(current_dbs, desired_dbs, matches, k + 1)

MatchDatabases(current_dbs, desired_dbs) ==
    match_resources([i \in DOMAIN current_dbs |-> Str(current_dbs[i].databaseId)],
                    [i \in DOMAIN current_dbs |-> current_dbs[i].label],
                    [j \in DOMAIN desired_dbs |-> Str(desired_dbs[j].databaseId)],
                    [j \in DOMAIN desired_dbs |-> desired_dbs[j].label])

EmptyChangeset == [record_actions |-> <<>>, field_actions |-> <<>>, form_actions |-> <<>>, database_actions |-> <<>>]

\* the body of generate_changeset after `m = match_resources(...)`
DatabaseChanges(current_dbs, desired_dbs, m) ==
    Warnings(m.warnings)
    \o [k \in DOMAIN m.deletes |-> DatabaseDeleteAction(current_dbs[m.deletes[k]].databaseId)]
    \o [k \in DOMAIN m.creates |->
           DatabaseCreateAction(desired_dbs[m.creates[k]].label, desired_dbs[m.creates[k]].description)]
    \o DatabaseMatchChanges(current_dbs, desired_dbs, m.matched, 1)

\* generate_changeset either returns (Changeset, warnings) or raises the
\* pydantic ValidationError of the first action that does not validate.
Outcome(items) ==
    IF AllValidate(ActionsAt(items, "record")) /\ AllValidate(ActionsAt(items, "field"))
    THEN [raised    |-> FALSE,
          changeset |-> [record_actions   |-> ActionsAt(items, "record"),
                         field_actions    |-> ActionsAt(items, "field"),
                         form_actions     |-> ActionsAt(items, "form"),
                         database_actions |-> ActionsAt(items, "database")],
          warnings  |-> WarningsOf(items)]
    ELSE [raised |-> TRUE, changeset |-> EmptyChangeset, warnings |-> <<>>]

RECURSIVE FormsOfCreated(_, _, _)
FormsOfCreated(desired_dbs, creates, k) ==
    IF k > Len(creates) THEN <<>>
    ELSE generate_form_changes(desired_dbs[creates[k]].databaseId, <<>>, desired_dbs[creates[k]].forms)
         \o FormsOfCreated(desired_dbs, creates, k + 1)

\* generate_changeset that also descends into the forms of created databases
generate_changeset_IntoCreated(cur_schema, des_schema) ==
    Outcome(DatabaseChanges(cur_schema.databases, des_schema.databases,
                            MatchDatabases(cur_schema.databases, des_schema.databases))
            \o FormsOfCreated(des_schema.databases,
                              MatchDatabases(cur_schema.databases, des_schema.databases).creates, 1))

generate_changeset(cur_schema, des_schema) ==
    Outcome(DatabaseChanges(cur_schema.databases, des_schema.databases,
                            MatchDatabases(cur_schema.databases, des_schema.databases)))

ChangesetLen(cs) == Len(cs.record_actions) + Len(cs.field_actions) + Len(cs.form_actions) + Len(cs.database_actions)

\* ------------------------------------------------------------------------
\* Snapshots and the states in which a component is not running
\* ------------------------------------------------------------------------
EmptySnapshot == [databases |-> <<>>]
NoOutcome == [raised |-> FALSE, changeset |-> EmptyChangeset, warnings |-> <<>>]

DiffIdle ==
    /\ stage = "idle"
    /\ materialized_boundary = EmptySnapshot
    /\ desired_schema = EmptySnapshot
    /\ outcome = NoOutcome
    /\ edits = 0

MatchIdle ==
    /\ pc = "idle"
    /\ current = <<>>
    /\ desired = <<>>
    /\ result = [matched |-> <<>>, deletes |-> <<>>, creates |-> <<>>, warnings |-> <<>>]

NoChanges == [raised |-> FALSE, actions |-> <<>>, warnings |-> <<>>]

RecordsIdle ==
    /\ rstage = "idle"
    /\ cur_records = <<>>
    /\ des_records = <<>>
    /\ changes = NoChanges

\* CONCURRENCY_LIMIT = asyncio.Semaphore(10)
CONCURRENCY_LIMIT == 10

MaterializeIdle ==
    /\ mstage = "idle"
    /\ script_boundary = <<>>
    /\ remote_forms = <<>>
    /\ boundary_index = 0
    /\ tasks = <<>>
    /\ permits = CONCURRENCY_LIMIT

IdentifierIdle ==
    /\ istage = "idle"
    /\ identifier = <<>>
    /\ identifier_is_regex = FALSE
    /\ items_dict = <<>>
    /\ matching_items = <<>>

ResolveIdle ==
    /\ vstage = "idle"
    /\ boundaries = <<>>
    /\ remote = <<>>
    /\ materialized = <<>>

ChangesetIdle ==
    /\ cstage = "idle"
    /\ self_changeset = EmptyChangeset
    /\ other_changeset = EmptyChangeset
    /\ sum_changeset = EmptyChangeset
    /\ wire = <<>>
    /\ restored = <<>>

ExecuteIdle ==
    /\ wstage = "idle"
    /\ attempt = 0
    /\ started = <<>>
    /\ execution = <<>>

RequestIdle ==
    /\ qstage = "idle"
    /\ retries = 0
    /\ request_attempt = 0
    /\ exchanges = <<>>
    /\ slept = <<>>
    /\ request_outcome = <<>>

FanOutIdle ==
    /\ fan_stage = "idle"
    /\ matching_count = 0
    /\ forms_per_database = 0
    /\ crowd = <<>>
    /\ slots = CONCURRENCY_LIMIT

MappingsIdle ==
    /\ fstage = "idle"
    /\ platform = <<>>
    /\ start_form_id = ""
    /\ form_id_local = ""
    /\ mappings = <<>>
    /\ visited_forms = {}
    /\ pending_forms = <<>>
    /\ fetches = <<>>

\* ------------------------------------------------------------------------
\* Specification of the matcher on generic resources
\* ------------------------------------------------------------------------
MaxCurrent == 3
MaxDesired == 2

Identifiers == {Str(""), Str("a"), Str("b")}
FallbackKeys == {"k", "m"}
Resources == [id : Identifiers, key : FallbackKeys]

SeqsUpTo(S, n) == UNION {[1..k -> S] : k \in 0..n}

\* id_getter and fallback_key applied to every element of a list
Ids(list) == [i \in DOMAIN list |-> list[i].id]
Keys(list) == [i \in DOMAIN list |-> list[i].key]

NoResult == [matched |-> <<>>, deletes |-> <<>>, creates |-> <<>>, warnings |-> <<>>]

InitMatch ==
    /\ pc = "start"
    /\ current \in SeqsUpTo(Resources, MaxCurrent)
    /\ desired \in SeqsUpTo(Resources, MaxDesired)
    /\ result = NoResult
    /\ DiffIdle
    /\ RecordsIdle
    /\ MaterializeIdle
    /\ IdentifierIdle
    /\ ResolveIdle
    /\ ChangesetIdle
    /\ ExecuteIdle
    /\ RequestIdle
    /\ MappingsIdle
    /\ FanOutIdle

RunMatch ==
    /\ pc = "start"
    /\ result' = match_resources(Ids(current), Keys(current), Ids(desired), Keys(desired))
    /\ pc' = "done"
    /\ UNCHANGED <<current, desired>>
    /\ UNCHANGED <<diffVars, recVars, matVars, idVars, resVars, csVars, exVars, rqVars, fmVars, foVars>>

NextMatch == RunMatch

SpecMatch == InitMatch /\ [][NextMatch]_vars

\* ------------------------------------------------------------------------
\* Specification of the differ: a snapshot is materialized, deep-copied,
\* changed by the script into the desired snapshot, and the two are diffed
\* ------------------------------------------------------------------------
MaxEdits == 2

DatabaseIds == {"", "d1", "d2"}
DatabaseLabels == {"A", "B"}
Descriptions == {"x", "y"}
FormIds == {"", "f1"}
FormLabels == {"Costs", "Other"}
FieldIds == {NoneV, Str(""), Str("c1")}
FieldCodes == {Str("AMT"), Str("NOTE")}
RecordIdValues == {Str("r1"), Str("r2")}
FieldValues == {Num(10), Num(20), NoneV, Str("")}

Fields == [id : FieldIds, code : FieldCodes, label : {"Amount"}]

Record(id, amt) == [key \in {"@id", "AMT"} |-> IF key = "@id" THEN id ELSE amt]
Records == {Record(id, amt) : id \in RecordIdValues, amt \in {Num(10), Num(20)}}
              \cup {[key \in {"AMT"} |-> amt] : amt \in {Num(10), Num(20)}}

Form(id, database_id, label, fields, records) ==
    [id |-> id, databaseId |-> database_id, label |-> label, fields |-> fields, records |-> records]

\* the form of the end-to-end scenario: F1 "Costs" with field c1/AMT and record r1
ScenarioForm(database_id) ==
    Form("f1", database_id, "Costs", << [id |-> Str("c1"), code |-> Str("AMT"), label |-> "Amount"] >>,
         << Record(Str("r1"), Num(10)) >>)

Database(database_id, label, description, forms) ==
    [databaseId |-> database_id, label |-> label, description |-> description, forms |-> forms]

ScenarioSnapshot == [databases |-> << Database("d1", "A", "x", << ScenarioForm("d1") >>) >>]

Databases ==
    {Database(id, label, "x", IF withForm THEN << ScenarioForm(id) >> ELSE <<>>) :
        id \in DatabaseIds, label \in DatabaseLabels, withForm \in BOOLEAN}

RemoveAt(seq, k) == SubSeq(seq, 1, k - 1) \o SubSeq(seq, k + 1, Len(seq))
SetKey(r, key, value) == [c \in DOMAIN r \cup {key} |-> IF c = key THEN value ELSE r[c]]

\* the snapshot being written at this stage
Target == IF stage = "materialized" THEN materialized_boundary ELSE desired_schema

DbIndexes == DOMAIN Target.databases
FormIndexes(d) == DOMAIN Target.databases[d].forms
FieldIndexes(d, f) == DOMAIN Target.databases[d].forms[f].fields
RecordIndexes(d, f) == DOMAIN Target.databases[d].forms[f].records

\* one change of the snapshot being written
Write(snapshot) ==
    /\ stage \in {"materialized", "derive"}
    /\ edits < MaxEdits
    /\ edits' = edits + 1
    /\ materialized_boundary' = IF stage = "materialized" THEN snapshot ELSE materialized_boundary
    /\ desired_schema' = IF stage = "derive" THEN snapshot ELSE desired_schema
    /\ UNCHANGED <<stage, outcome>>
    /\ UNCHANGED <<matchVars, recVars, matVars, idVars, resVars, csVars, exVars, rqVars, fmVars, foVars>>

AddDatabase ==
    \E db \in Databases :
        Write([Target EXCEPT !.databases = Append(@, db)])

AddForm ==
    \E d \in DbIndexes, id \in FormIds, label \in FormLabels :
        Write([Target EXCEPT !.databases[d].forms =
                  Append(@, Form(id, Target.databases[d].databaseId, label, <<>>, <<>>))])

AddField ==
    \E d \in DbIndexes : \E f \in FormIndexes(d), field \in Fields :
        Write([Target EXCEPT !.databases[d].forms[f].fields = Append(@, field)])

AddRecord ==
    \E d \in DbIndexes : \E f \in FormIndexes(d), rec \in Records :
        Write([Target EXCEPT !.databases[d].forms[f].records = Append(@, rec)])

RemoveDatabase ==
    \E d \in DbIndexes :
        Write([Target EXCEPT !.databases = RemoveAt(@, d)])

RemoveForm ==
    \E d \in DbIndexes : \E f \in FormIndexes(d) :
        Write([Target EXCEPT !.databases[d].forms = RemoveAt(@, f)])

RemoveField ==
    \E d \in DbIndexes : \E f \in FormIndexes(d) : \E k \in FieldIndexes(d, f) :
        Write([Target EXCEPT !.databases[d].forms[f].fields = RemoveAt(@, k)])

RemoveRecord ==
    \E d \in DbIndexes : \E f \in FormIndexes(d) : \E k \in RecordIndexes(d, f) :
        Write([Target EXCEPT !.databases[d].forms[f].records = RemoveAt(@, k)])

SetDatabaseLabel ==
    \E d \in DbIndexes, label \in DatabaseLabels :
        /\ label # Target.databases[d].label
        /\ Write([Target EXCEPT !.databases[d].label = label])

SetDatabaseDescription ==
    \E d \in DbIndexes, description \in Descriptions :
        /\ description # Target.databases[d].description
        /\ Write([Target EXCEPT !.databases[d].description = description])

SetFormLabel ==
    \E d \in DbIndexes : \E f \in FormIndexes(d), label \in FormLabels :
        /\ label # Target.databases[d].forms[f].label
        /\ Write([Target EXCEPT !.databases[d].forms[f].label = label])

SetFieldCode ==
    \E d \in DbIndexes : \E f \in FormIndexes(d) : \E k \in FieldIndexes(d, f), code \in FieldCodes :
        /\ code # Target.databases[d].forms[f].fields[k].code
        /\ Write([Target EXCEPT !.databases[d].forms[f].fields[k].code = code])

SetRecordValue ==
    \E d \in DbIndexes : \E f \in FormIndexes(d) : \E k \in RecordIndexes(d, f) :
        \E code \in {"AMT", "NOTE"}, value \in FieldValues :
            /\ Get(Target.databases[d].forms[f].records[k], code) # value
            /\ Write([Target EXCEPT !.databases[d].forms[f].records[k] = SetKey(@, code, value)])

\* generate_desired_schema: schema_copy = copy.deepcopy(boundary)
DeepCopy ==
    /\ stage = "materialized"
    /\ stage' = "derive"
    /\ desired_schema' = materialized_boundary
    /\ UNCHANGED <<materialized_boundary, outcome, edits>>
    /\ UNCHANGED <<matchVars, recVars, matVars, idVars, resVars, csVars, exVars, rqVars, fmVars, foVars>>

\* a differ that takes what it has read out of the list it was given
AfterCall_Drained(snapshot) == EmptySnapshot

\* an argument of the differ after the call: match_resources works on
\* list(current) and list(desired), and the differ only reads the snapshots
\* (attributes, iteration, dict.get, dict.items, model_dump)
AfterCall(snapshot) == snapshot

GenerateChangeset ==
    /\ stage = "derive"
    /\ stage' = "done"
    /\ outcome' = generate_changeset(materialized_boundary, desired_schema)
    /\ materialized_boundary' = AfterCall(materialized_boundary)
    /\ desired_schema' = AfterCall(desired_schema)
    /\ UNCHANGED edits
    /\ UNCHANGED <<matchVars, recVars, matVars, idVars, resVars, csVars, exVars, rqVars, fmVars, foVars>>

InitDiff ==
    /\ stage = "materialized"
    /\ materialized_boundary \in {EmptySnapshot, ScenarioSnapshot}
    /\ desired_schema = EmptySnapshot
    /\ outcome = NoOutcome
    /\ edits = 0
    /\ MatchIdle
    /\ RecordsIdle
    /\ MaterializeIdle
    /\ IdentifierIdle
    /\ ResolveIdle
    /\ ChangesetIdle
    /\ ExecuteIdle
    /\ RequestIdle
    /\ MappingsIdle
    /\ FanOutIdle

NextDiff ==
    \/ AddDatabase \/ AddForm \/ AddField \/ AddRecord
    \/ RemoveDatabase \/ RemoveForm \/ RemoveField \/ RemoveRecord
    \/ SetDatabaseLabel \/ SetDatabaseDescription \/ SetFormLabel \/ SetFieldCode \/ SetRecordValue
    \/ DeepCopy
    \/ GenerateChangeset

SpecDiff == InitDiff /\ [][NextDiff]_vars

\* ------------------------------------------------------------------------
\* Specification of the record-level differ: generate_record_changes applied
\* to the record lists of one form
\* ------------------------------------------------------------------------
MaxRecords == 2

\* records that differ in their @id (absent, "", r1, r2) and in AMT
IdRecords ==
    {Record(id, amt) : id \in RecordIdValues \cup {Str("")}, amt \in {Num(10), Num(20)}}
        \cup {[key \in {"AMT"} |-> amt] : amt \in {Num(10), Num(20)}}

\* the scalars a record field holds: None, str, number, bool
Scalars == {NoneV, Str(""), Str("x"), Str("0"), Num(0), Num(1), Bool(TRUE), Bool(FALSE)}

\* record r1 with the field AMT holding `value`, or without the field
ValueRecord(present, value) ==
    IF present THEN Record(Str("r1"), value) ELSE [key \in {"@id"} |-> Str("r1")]

ValueRecords == {ValueRecord(present, value) : present \in BOOLEAN, value \in Scalars}

\* generate_record_changes returns (actions, warnings) or raises the
\* ValidationError of an action that does not validate
RecordsOutcome(items) ==
    IF AllValidate(ActionsAt(items, "record"))
    THEN [raised |-> FALSE, actions |-> ActionsAt(items, "record"), warnings |-> WarningsOf(items)]
    ELSE [raised |-> TRUE, actions |-> <<>>, warnings |-> <<>>]

InitRecords ==
    /\ rstage = "start"
    /\ \/ /\ cur_records \in SeqsUpTo(IdRecords, MaxRecords)
          /\ des_records \in SeqsUpTo(IdRecords, MaxRecords)
       \/ /\ cur_records \in {<<r>> : r \in ValueRecords}
          /\ des_records \in {<<r>> : r \in ValueRecords}
    /\ changes = NoChanges
    /\ MatchIdle
    /\ DiffIdle
    /\ MaterializeIdle
    /\ IdentifierIdle
    /\ ResolveIdle
    /\ ChangesetIdle
    /\ ExecuteIdle
    /\ RequestIdle
    /\ MappingsIdle
    /\ FanOutIdle

GenerateRecordChanges ==
    /\ rstage = "start"
    /\ changes' = RecordsOutcome(generate_record_changes("f1", cur_records, des_records))
    /\ rstage' = "done"
    /\ UNCHANGED <<cur_records, des_records>>
    /\ UNCHANGED <<matchVars, diffVars, matVars, idVars, resVars, csVars, exVars, rqVars, fmVars, foVars>>

NextRecords == GenerateRecordChanges

SpecRecords == InitRecords /\ [][NextRecords]_vars

\* ------------------------------------------------------------------------
\* Specification of materialize_boundary: the fan-out over the matching
\* databases and their matching forms, every task wrapped in with_semaphore
\* ------------------------------------------------------------------------
MaxForms == 6
MaxDatabaseBoundaries == 1
MaxFormBoundaries == 1

\* the databases get_user_databases returns
RemoteDatabases == {"d1", "d2"}

\* a database boundary: the databases it matches and the number of its form
\* boundaries, none or as many as the bound allows
DatabaseBoundaries ==
    [matching : {{}, {"d1"}, RemoteDatabases}, form_boundaries : {0, MaxFormBoundaries}]

\* with_semaphore that never waits for a slot
CanAcquire_Unlimited(value) == TRUE

\* `async with CONCURRENCY_LIMIT` enters only while the semaphore has a slot
CanAcquire(value) == value > 0

\* async with CONCURRENCY_LIMIT: a slot is taken on entry and given back on
\* exit, whether the wrapped coroutine returned or raised
Acquire(value) == value - 1

Release_Kept(value) == value

Release(value) == value + 1

\* a join that takes every result for a value
IsException_Never(task) == FALSE

\* isinstance(task_results[i], Exception) over the results of the child tasks
IsException(task) == task.failed

\* the task with_semaphore(materialize_form_boundaries(...)) of one database;
\* its child tasks with_semaphore(materialize_field_and_record_boundaries(...))
\* are counted by where they stand: waiting for a slot, awaiting
\* get_form_schema, awaiting get_form, finished
NewTask == [phase |-> "queued", form_boundary |-> 0, queued |-> 0, schema |-> 0, records |-> 0,
            finished |-> 0, failed |-> FALSE]

\* tasks = [with_semaphore(...) for database in matching_databases]
EnterBoundary(b) ==
    /\ boundary_index' = b
    /\ IF b > Len(script_boundary)
       THEN mstage' = "done" /\ tasks' = <<>>
       ELSE mstage' = "boundaries" /\ tasks' = [d \in script_boundary[b].matching |-> NewTask]

\* tasks of one form boundary: one child per matching form, all waiting
EnterFormBoundary(task, d, k) ==
    [task EXCEPT !.phase = "forms", !.form_boundary = k, !.queued = remote_forms[d],
                 !.schema = 0, !.records = 0, !.finished = 0]

InitMaterialize ==
    /\ mstage = "listing"
    /\ script_boundary \in SeqsUpTo(DatabaseBoundaries, MaxDatabaseBoundaries)
    /\ remote_forms \in [RemoteDatabases -> {0, 1, MaxForms}]
    /\ boundary_index = 0
    /\ tasks = <<>>
    /\ permits = CONCURRENCY_LIMIT
    /\ MatchIdle
    /\ DiffIdle
    /\ RecordsIdle
    /\ IdentifierIdle
    /\ ResolveIdle
    /\ ChangesetIdle
    /\ ExecuteIdle
    /\ RequestIdle
    /\ MappingsIdle
    /\ FanOutIdle

Others == <<matchVars, diffVars, recVars, idVars, resVars, csVars, exVars, rqVars, fmVars, foVars>>

\* existing_databases = await client.api.get_user_databases()
GetUserDatabasesResponse ==
    /\ mstage = "listing"
    /\ \E ok \in BOOLEAN :
          IF ok THEN EnterBoundary(1)
          ELSE mstage' = "failed" /\ UNCHANGED <<boundary_index, tasks>>
    /\ UNCHANGED <<script_boundary, remote_forms, permits>>
    /\ UNCHANGED Others

\* with_semaphore of a database task enters and awaits get_database_tree
AcquireDatabaseTask ==
    \E d \in DOMAIN tasks :
        /\ mstage = "boundaries"
        /\ tasks[d].phase = "queued"
        /\ CanAcquire(permits)
        /\ permits' = Acquire(permits)
        /\ tasks' = [tasks EXCEPT ![d].phase = "tree"]
        /\ UNCHANGED <<mstage, script_boundary, remote_forms, boundary_index>>
        /\ UNCHANGED Others

\* tree = await client.api.get_database_tree(database_id) answers or raises
DatabaseTreeResponse ==
    \E d \in DOMAIN tasks, ok \in BOOLEAN :
        /\ tasks[d].phase = "tree"
        /\ IF ~ok
           THEN /\ tasks' = [tasks EXCEPT ![d].phase = "failed"]
                /\ permits' = Release(permits)
           ELSE IF script_boundary[boundary_index].form_boundaries = 0
           THEN /\ tasks' = [tasks EXCEPT ![d].phase = "done"]
                /\ permits' = Release(permits)
           ELSE /\ tasks' = [tasks EXCEPT ![d] = EnterFormBoundary(@, d, 1)]
                /\ permits' = permits
        /\ UNCHANGED <<mstage, script_boundary, remote_forms, boundary_index>>
        /\ UNCHANGED Others

\* with_semaphore of a form task enters and awaits get_form_schema
AcquireFormTask ==
    \E d \in DOMAIN tasks :
        /\ tasks[d].phase = "forms"
        /\ tasks[d].queued > 0
        /\ CanAcquire(permits)
        /\ permits' = Acquire(permits)
        /\ tasks' = [tasks EXCEPT ![d].queued = @ - 1, ![d].schema = @ + 1]
        /\ UNCHANGED <<mstage, script_boundary, remote_forms, boundary_index>>
        /\ UNCHANGED Others

\* schema = await client.api.get_form_schema(form_id) answers, and the task
\* goes on to await get_form, or raises, and the task ends
FormSchemaResponse ==
    \E d \in DOMAIN tasks, ok \in BOOLEAN :
        /\ tasks[d].phase = "forms"
        /\ tasks[d].schema > 0
        /\ IF ok
           THEN /\ tasks' = [tasks EXCEPT ![d].schema = @ - 1, ![d].records = @ + 1]
                /\ permits' = permits
           ELSE /\ tasks' = [tasks EXCEPT ![d].schema = @ - 1, ![d].finished = @ + 1,
                                          ![d].failed = TRUE]
                /\ permits' = Release(permits)
        /\ UNCHANGED <<mstage, script_boundary, remote_forms, boundary_index>>
        /\ UNCHANGED Others

\* records = await client.api.get_form(form_id) answers or raises; the task
\* ends and leaves the semaphore
FormRecordsResponse ==
    \E d \in DOMAIN tasks, ok \in BOOLEAN :
        /\ tasks[d].phase = "forms"
        /\ tasks[d].records > 0
        /\ tasks' = [tasks EXCEPT ![d].records = @ - 1, ![d].finished = @ + 1,
                                  ![d].failed = @ \/ ~ok]
        /\ permits' = Release(permits)
        /\ UNCHANGED <<mstage, script_boundary, remote_forms, boundary_index>>
        /\ UNCHANGED Others

\* task_results = await asyncio.gather(*tasks, return_exceptions=True) in
\* materialize_form_boundaries: every child has ended; an exception among
\* the results raises RuntimeError, otherwise the next form boundary starts
\* or the database task returns
GatherFormTasks ==
    \E d \in DOMAIN tasks :
        /\ tasks[d].phase = "forms"
        /\ tasks[d].queued = 0 /\ tasks[d].schema = 0 /\ tasks[d].records = 0
        /\ IF IsException(tasks[d])
           THEN /\ tasks' = [tasks EXCEPT ![d].phase = "failed"]
                /\ permits' = Release(permits)
           ELSE IF tasks[d].form_boundary < script_boundary[boundary_index].form_boundaries
           THEN /\ tasks' = [tasks EXCEPT ![d] = EnterFormBoundary(@, d, @.form_boundary + 1)]
                /\ permits' = permits
           ELSE /\ tasks' = [tasks EXCEPT ![d].phase = "done"]
                /\ permits' = Release(permits)
        /\ UNCHANGED <<mstage, script_boundary, remote_forms, boundary_index>>
        /\ UNCHANGED Others

\* task_results = await asyncio.gather(*tasks, return_exceptions=True) in
\* materialize_boundary
GatherDatabaseTasks ==
    /\ mstage = "boundaries"
    /\ \A d \in DOMAIN tasks : tasks[d].phase \in {"done", "failed"}
    /\ IF \E d \in DOMAIN tasks : tasks[d].phase = "failed"
       THEN mstage' = "failed" /\ UNCHANGED <<boundary_index, tasks>>
       ELSE EnterBoundary(boundary_index + 1)
    /\ UNCHANGED <<script_boundary, remote_forms, permits>>
    /\ UNCHANGED Others

NextMaterialize ==
    \/ GetUserDatabasesResponse
    \/ AcquireDatabaseTask
    \/ DatabaseTreeResponse
    \/ AcquireFormTask
    \/ FormSchemaResponse
    \/ FormRecordsResponse
    \/ GatherFormTasks
    \/ GatherDatabaseTasks

SpecMaterialize == InitMaterialize /\ [][NextMaterialize]_vars

\* ------------------------------------------------------------------------
\* Specification of match_identifier. A Python str is the sequence of its
\* characters; a dict is the sequence of its (key, value) entries in
\* insertion order
\* ------------------------------------------------------------------------
MaxPattern == 3
MaxKey == 2

PatternCharacters == {"F", "o", ".", "^", "$", "\\"}
KeyCharacters == {"F", "o", "."}

Strings(alphabet, n) == UNION {[1..k -> alphabet] : k \in 0..n}

\* a backslash escapes the character after it; before an ASCII letter that
\* names no escape, or at the end of the pattern, re.compile raises re.error
BadEscapes == {"F", "o"}

RECURSIVE EscapeAt(_, _)
EscapeAt(pattern, i) ==
    IF i < 1 THEN FALSE
    ELSE pattern[i] = "\\" /\ ~EscapeAt(pattern, i - 1)

Compiles(pattern) ==
    \A i \in DOMAIN pattern :
        EscapeAt(pattern, i) => (i < Len(pattern) /\ pattern[i + 1] \notin BadEscapes)

Token(kind, char) == [kind |-> kind, char |-> char]

\* what one character outside an escape stands for
Plain(char) ==
    CASE char = "." -> Token("any", "")
      [] char = "^" -> Token("bol", "")
      [] char = "$" -> Token("eol", "")
      [] OTHER -> Token("literal", char)

\* re.compile(pattern), from position i on
RECURSIVE compile(_, _)
compile(pattern, i) ==
    IF i > Len(pattern) THEN <<>>
    ELSE IF pattern[i] = "\\"
    THEN <<Token("literal", pattern[i + 1])>> \o compile(pattern, i + 2)
    ELSE <<Plain(pattern[i])>> \o compile(pattern, i + 1)

\* the tokens of expr from the j-th on match k from position i on
RECURSIVE MatchesAt(_, _, _, _)
MatchesAt(expr, k, i, j) ==
    IF j > Len(expr) THEN TRUE
    ELSE CASE expr[j].kind = "bol" -> i = 1 /\ MatchesAt(expr, k, i, j + 1)
           [] expr[j].kind = "eol" -> i = Len(k) + 1 /\ MatchesAt(expr, k, i, j + 1)
           [] expr[j].kind = "any" ->
                i <= Len(k) /\ k[i] # "\n" /\ MatchesAt(expr, k, i + 1, j + 1)
           [] OTHER ->
                i <= Len(k) /\ k[i] = expr[j].char /\ MatchesAt(expr, k, i + 1, j + 1)

\* re.match: a match at the start of k only
search_AtStart(expr, k) == MatchesAt(expr, k, 1, 1)

\* expr.search(k): a match starting anywhere in k
search(expr, k) == \E i \in 1..(Len(k) + 1) : MatchesAt(expr, k, i, 1)

Values(entries) == [n \in DOMAIN entries |-> entries[n].value]

MatchRegex(expr, items) == Values(SelectSeq(items, LAMBDA e : search(expr, e.key)))

\* None, among strings: the sequence of the one non-character "None"
None == <<"None">>

\* match_identifier returns the list of matching values, or raises: re.error
\* of re.compile, TypeError of expr.search(None)
match_identifier(ident, is_regex, items) ==
    IF is_regex
    THEN IF Compiles(ident) /\ \A n \in DOMAIN items : items[n].key # None
         THEN [raised |-> FALSE, values |-> MatchRegex(compile(ident, 1), items)]
         ELSE [raised |-> TRUE, values |-> <<>>]
    ELSE [raised |-> FALSE, values |-> Values(SelectSeq(items, LAMBDA e : e.key = ident))]

RECURSIVE SeqOf(_)
SeqOf(set) ==
    IF set = {} THEN <<>>
    ELSE <<CHOOSE x \in set : TRUE>> \o SeqOf(set \ {CHOOSE x \in set : TRUE})

\* a dict with one entry per key
DictOf(keys) == [n \in DOMAIN keys |-> [key |-> keys[n], value |-> [id |-> n, label |-> keys[n]]]]

Foo == <<"2", ".", "1", "A", "_", "F", "o", "o">>
Bar == <<"2", ".", "1", "B", "_", "B", "a", "r">>
ExampleIdentifiers == {<<"^", "2", "\\", ".", "1">>, Foo, <<"2", ".", "1">>, <<"2", "\\", ".", "1", "$">>}

InitIdentifier ==
    /\ istage = "start"
    /\ identifier_is_regex \in BOOLEAN
    /\ \/ /\ identifier \in Strings(PatternCharacters, MaxPattern)
          /\ items_dict = DictOf(SeqOf(Strings(KeyCharacters, MaxKey)))
       \/ /\ identifier \in ExampleIdentifiers
          /\ items_dict = DictOf(<<Foo, Bar>>)
    /\ matching_items = <<>>
    /\ MatchIdle
    /\ DiffIdle
    /\ RecordsIdle
    /\ MaterializeIdle
    /\ ResolveIdle
    /\ ChangesetIdle
    /\ ExecuteIdle
    /\ RequestIdle
    /\ MappingsIdle
    /\ FanOutIdle

MatchIdentifier ==
    /\ istage = "start"
    /\ matching_items' = match_identifier(identifier, identifier_is_regex, items_dict)
    /\ istage' = "done"
    /\ UNCHANGED <<identifier, identifier_is_regex, items_dict>>
    /\ UNCHANGED <<matchVars, diffVars, recVars, matVars, resVars, csVars, exVars, rqVars, fmVars, foVars>>

NextIdentifier == MatchIdentifier

SpecIdentifier == InitIdentifier /\ [][NextIdentifier]_vars

\* ------------------------------------------------------------------------
\* Specification of materialize_boundary as a function of the boundary and
\* of what the remote platform answers (every call answers). Each level
\* yields its resources and its warnings as one list of items.
\* ------------------------------------------------------------------------
MaxRules == 2

Rule(ident, type, is_regex) ==
    [identifier |-> ident, identifier_type |-> type, identifier_is_regex |-> is_regex]

\* {key: value for ...}: a key keeps the position of its first entry and the
\* value of its last
Dict(pairs) ==
    Values(SelectSeq(
        [n \in DOMAIN pairs |->
            [value |-> [key |-> pairs[n].key,
                        value |-> pairs[SetMax({m \in DOMAIN pairs : pairs[m].key = pairs[n].key})].value],
             first |-> \A m \in 1..(n - 1) : pairs[m].key # pairs[n].key]],
        LAMBDA e : e.first))

ByLabel(resources) == Dict([n \in DOMAIN resources |-> [key |-> resources[n].label, value |-> resources[n]]])
ByCode(elements) == Dict([n \in DOMAIN elements |-> [key |-> elements[n].code, value |-> elements[n]]])

\* the warnings: "... identifier {identifier} of type {identifier_type} could
\* not be materialized ..." and "No materialized ... boundaries were found ..."
Unmatched(level, rule, within) ==
    [kind |-> "warning", about |-> "unmatched", level |-> level, identifier |-> rule.identifier,
     identifier_type |-> rule.identifier_type, within |-> within]
NothingFound(level, within) ==
    [kind |-> "warning", about |-> "nothing", level |-> level, identifier |-> <<>>,
     identifier_type |-> "", within |-> within]
Raised == [kind |-> "raised"]
Found(kind, resources) == [n \in DOMAIN resources |-> [kind |-> kind, resource |-> resources[n]]]

OfKind(found, kind) == SelectSeq(found, LAMBDA item : item.kind = kind)
ResourcesOf(found, kind) == [n \in DOMAIN OfKind(found, kind) |-> OfKind(found, kind)[n].resource]
HasRaised(found) == \E n \in DOMAIN found : found[n].kind = "raised"

\* matching_fields of one field boundary
MatchingFields(field_boundary, elements) ==
    IF field_boundary.identifier_type = "id"
    THEN [raised |-> FALSE,
          values |-> SelectSeq(elements, LAMBDA field : field.id = field_boundary.identifier)]
    ELSE IF field_boundary.identifier_type = "code"
    THEN match_identifier(field_boundary.identifier, field_boundary.identifier_is_regex, ByCode(elements))
    ELSE match_identifier(field_boundary.identifier, field_boundary.identifier_is_regex, ByLabel(elements))

\* one turn of `for field_boundary in field_boundaries`
FieldBoundaryItems(field_boundary, form_id, matching_fields) ==
    IF matching_fields.raised THEN <<Raised>>
    ELSE IF Len(matching_fields.values) = 0
    THEN <<Unmatched("field", field_boundary, form_id)>>
    ELSE Found("field", matching_fields.values)

RECURSIVE FieldItems(_, _, _, _)
FieldItems(field_boundaries, form_id, elements, n) ==
    IF n > Len(field_boundaries) THEN <<>>
    ELSE FieldBoundaryItems(field_boundaries[n], form_id, MatchingFields(field_boundaries[n], elements))
            \o FieldItems(field_boundaries, form_id, elements, n + 1)

AllRecordsBoundary == [exact |-> FALSE, record_ids |-> {}]
RecordExactBoundary(record_ids) == [exact |-> TRUE, record_ids |-> record_ids]

\* `for record_boundary in record_boundaries`: every turn assigns
\* materialized_record_boundaries anew
RECURSIVE RecordLoop(_, _, _, _)
RecordLoop(record_boundaries, records, n, selected) ==
    IF n > Len(record_boundaries) THEN selected
    ELSE RecordLoop(record_boundaries, records, n + 1,
            IF record_boundaries[n].exact
            THEN SelectSeq(records, LAMBDA r : r.id \in record_boundaries[n].record_ids)
            ELSE records)

WithNothingFound(found, kind, level, within) ==
    IF \E n \in DOMAIN found : found[n].kind = kind THEN <<>> ELSE <<NothingFound(level, within)>>

FieldsAndRecords(fields, records, form_id) ==
    fields \o WithNothingFound(fields, "field", "field", form_id)
           \o Found("record", records) \o WithNothingFound(Found("record", records), "record", "record", form_id)

\* materialize_field_and_record_boundaries
materialize_field_and_record_boundaries(form_id, field_boundaries, record_boundaries) ==
    FieldsAndRecords(FieldItems(field_boundaries, form_id, remote.elements, 1),
                     RecordLoop(record_boundaries, remote.records, 1, <<>>), form_id)

Tree(database_id) == IF database_id = <<"d">> THEN remote.tree_d ELSE remote.tree_e

\* forms_dict = {res.label: res for res in tree.resources if res.type == FORM}
FormsDict(database_id) == ByLabel(SelectSeq(Tree(database_id), LAMBDA res : res.type = "FORM"))

MatchingForms(form_boundary, forms_dict) ==
    IF form_boundary.identifier_type = "id"
    THEN [raised |-> FALSE,
          values |-> SelectSeq(Values(forms_dict), LAMBDA form : form.id = form_boundary.identifier)]
    ELSE match_identifier(form_boundary.identifier, form_boundary.identifier_is_regex, forms_dict)

MaterializedForm(form, database_id, found) ==
    [id |-> form.id, databaseId |-> database_id, label |-> form.label,
     fields |-> ResourcesOf(found, "field"), records |-> ResourcesOf(found, "record")]

\* the result of the task of one matching form, as the result loop takes it
FormTaskItems(form, database_id, found) ==
    IF HasRaised(found) THEN <<Raised>>
    ELSE <<[kind |-> "form", resource |-> MaterializedForm(form, database_id, found)]>>
            \o OfKind(found, "warning")

RECURSIVE FormTasks(_, _, _, _)
FormTasks(matching_forms, database_id, form_boundary, n) ==
    IF n > Len(matching_forms) THEN <<>>
    ELSE FormTaskItems(matching_forms[n], database_id,
                       materialize_field_and_record_boundaries(matching_forms[n].id,
                           form_boundary.field_boundaries, form_boundary.record_boundaries))
            \o FormTasks(matching_forms, database_id, form_boundary, n + 1)

\* one turn of `for form_boundary in form_boundaries`
FormBoundaryItems(form_boundary, database_id, matching_forms) ==
    IF matching_forms.raised THEN <<Raised>>
    ELSE IF Len(matching_forms.values) = 0
    THEN <<Unmatched("form", form_boundary, database_id)>>
    ELSE FormTasks(matching_forms.values, database_id, form_boundary, 1)

RECURSIVE FormItems(_, _, _)
FormItems(form_boundaries, database_id, n) ==
    IF n > Len(form_boundaries) THEN <<>>
    ELSE FormBoundaryItems(form_boundaries[n], database_id,
                           MatchingForms(form_boundaries[n], FormsDict(database_id)))
            \o FormItems(form_boundaries, database_id, n + 1)

WithNoForms(found, database_id) == found \o WithNothingFound(found, "form", "form", database_id)

\* materialize_form_boundaries
materialize_form_boundaries(database_id, form_boundaries) ==
    WithNoForms(FormItems(form_boundaries, database_id, 1), database_id)

MatchingDatabases(database_boundary, existing_databases) ==
    IF database_boundary.identifier_type = "id"
    THEN [raised |-> FALSE,
          values |-> SelectSeq(existing_databases,
                               LAMBDA db : db.databaseId = database_boundary.identifier)]
    ELSE match_identifier(database_boundary.identifier, database_boundary.identifier_is_regex,
                          ByLabel(existing_databases))

MaterializedDatabase(database, found) ==
    [databaseId |-> database.databaseId, label |-> database.label, forms |-> ResourcesOf(found, "form")]

DatabaseTaskItems(database, found) ==
    IF HasRaised(found) THEN <<Raised>>
    ELSE <<[kind |-> "database", resource |-> MaterializedDatabase(database, found)]>>
            \o OfKind(found, "warning")

RECURSIVE DatabaseTasks(_, _, _)
DatabaseTasks(matching_databases, database_boundary, n) ==
    IF n > Len(matching_databases) THEN <<>>
    ELSE DatabaseTaskItems(matching_databases[n],
                           materialize_form_boundaries(matching_databases[n].databaseId,
                                                       database_boundary.form_boundaries))
            \o DatabaseTasks(matching_databases, database_boundary, n + 1)

\* one turn of `for database_boundary in boundaries.database_boundaries`
DatabaseBoundaryItems(database_boundary, matching_databases) ==
    IF matching_databases.raised THEN <<Raised>>
    ELSE IF Len(matching_databases.values) = 0
    THEN <<Unmatched("database", database_boundary, <<>>)>>
    ELSE DatabaseTasks(matching_databases.values, database_boundary, 1)

RECURSIVE DatabaseItems(_, _)
DatabaseItems(database_boundaries, n) ==
    IF n > Len(database_boundaries) THEN <<>>
    ELSE DatabaseBoundaryItems(database_boundaries[n],
                               MatchingDatabases(database_boundaries[n], remote.databases))
            \o DatabaseItems(database_boundaries, n + 1)

\* what materialize_boundary returns: the snapshot and the warnings, or that
\* it raised
Materialized(found) ==
    IF HasRaised(found)
    THEN [raised |-> TRUE, snapshot |-> [databases |-> <<>>], warnings |-> <<>>]
    ELSE [raised |-> FALSE,
          snapshot |-> [databases |-> ResourcesOf(found, "database")],
          warnings |-> OfKind(found, "warning") \o WithNothingFound(found, "database", "database", <<>>)]

materialize_boundary(script) == Materialized(DatabaseItems(script, 1))

\* the remote platform
RemoteDatabase(id, label) == [databaseId |-> <<id>>, label |-> label]
Resource(id, label, type) == [id |-> <<id>>, label |-> label, type |-> type]
Element(id, code, label) == [id |-> <<id>>, code |-> code, label |-> label]
RemoteRecord(id) == [id |-> id]

RemoteDatabaseLists ==
    {<<>>,
     <<RemoteDatabase("d", <<"A">>), RemoteDatabase("e", <<"A", "B">>)>>,
     <<RemoteDatabase("d", <<"A">>), RemoteDatabase("e", <<"A">>)>>}
FullTree == <<Resource("f", <<"F">>, "FORM"), Resource("g", <<"F", "o">>, "FORM"),
              Resource("h", <<"F">>, "OTHER")>>
RemoteTrees ==
    {<<>>, <<Resource("k", <<"F">>, "FORM")>>,
     <<Resource("k", <<"F">>, "FORM"), Resource("l", <<"F">>, "FORM")>>}
FullElements == <<Element("x", <<"F">>, <<"L">>), Element("y", <<"F", "o">>, <<"L">>)>>
RemoteElements ==
    {<<>>, <<Element("x", <<"F">>, <<"L">>)>>, FullElements,
     <<Element("x", <<"F">>, <<"L">>), Element("y", None, <<"o">>)>>}
FullRecords == <<RemoteRecord("r"), RemoteRecord("s")>>
RemoteRecords == {<<>>, FullRecords}

Remote(databases, tree_e, elements, records) ==
    [databases |-> databases, tree_d |-> FullTree, tree_e |-> tree_e,
     elements |-> elements, records |-> records]

\* the rules a boundary is drawn from
DatabaseRules ==
    {Rule(<<"d">>, "id", FALSE), Rule(<<"z">>, "id", FALSE), Rule(<<"A">>, "label", FALSE),
     Rule(<<"^", "A">>, "label", TRUE), Rule(<<"B">>, "label", TRUE)}
FormRules ==
    {Rule(<<"f">>, "id", FALSE), Rule(<<"k">>, "id", FALSE), Rule(<<"F">>, "label", FALSE),
     Rule(<<"^", "F">>, "label", TRUE), Rule(<<"z">>, "label", FALSE)}
FieldRules ==
    {Rule(<<"x">>, "id", FALSE), Rule(<<"F">>, "code", FALSE), Rule(<<"^", "F">>, "code", TRUE),
     Rule(<<"L">>, "label", FALSE), Rule(<<"z">>, "code", TRUE)}
RecordRules == {AllRecordsBoundary, RecordExactBoundary({"r"}), RecordExactBoundary({"s"})}

FormBoundary(rule, field_boundaries, record_boundaries) ==
    [identifier |-> rule.identifier, identifier_type |-> rule.identifier_type,
     identifier_is_regex |-> rule.identifier_is_regex,
     field_boundaries |-> field_boundaries, record_boundaries |-> record_boundaries]
DatabaseBoundary(rule, form_boundaries) ==
    [identifier |-> rule.identifier, identifier_type |-> rule.identifier_type,
     identifier_is_regex |-> rule.identifier_is_regex, form_boundaries |-> form_boundaries]

\* ScriptBoundary.for_databases: the same form boundaries under every
\* database rule, the same field and record boundaries under every form rule
ScriptBoundaryOf(database_rules, form_rules, field_boundaries, record_boundaries) ==
    [n \in DOMAIN database_rules |->
        DatabaseBoundary(database_rules[n],
            [m \in DOMAIN form_rules |-> FormBoundary(form_rules[m], field_boundaries, record_boundaries)])]

NotMaterialized == [raised |-> FALSE, snapshot |-> [databases |-> <<>>], warnings |-> <<>>]

InitResolve ==
    /\ vstage = "start"
    /\ \/ \E database_rules \in SeqsUpTo(DatabaseRules, MaxRules),
             form_rules \in SeqsUpTo(FormRules, MaxRules) :
             /\ boundaries = ScriptBoundaryOf(database_rules, form_rules,
                                              <<Rule(<<"F">>, "code", TRUE)>>, <<AllRecordsBoundary>>)
             /\ \E databases \in RemoteDatabaseLists, tree_e \in RemoteTrees :
                   remote = Remote(databases, tree_e, FullElements, FullRecords)
       \/ \E field_boundaries \in SeqsUpTo(FieldRules, MaxRules),
             record_boundaries \in SeqsUpTo(RecordRules, MaxRules) :
             /\ boundaries = ScriptBoundaryOf(<<Rule(<<"d">>, "id", FALSE)>>,
                                              <<Rule(<<"f">>, "id", FALSE)>>,
                                              field_boundaries, record_boundaries)
             /\ \E elements \in RemoteElements, records \in RemoteRecords :
                   remote = Remote(<<RemoteDatabase("d", <<"A">>)>>, <<>>, elements, records)
    /\ materialized = NotMaterialized
    /\ MatchIdle
    /\ DiffIdle
    /\ RecordsIdle
    /\ MaterializeIdle
    /\ IdentifierIdle
    /\ ChangesetIdle
    /\ ExecuteIdle
    /\ RequestIdle
    /\ MappingsIdle
    /\ FanOutIdle

MaterializeBoundary ==
    /\ vstage = "start"
    /\ materialized' = materialize_boundary(boundaries)
    /\ vstage' = "done"
    /\ UNCHANGED <<boundaries, remote>>
    /\ UNCHANGED <<matchVars, diffVars, recVars, matVars, idVars, csVars, exVars, rqVars, fmVars, foVars>>

NextResolve == MaterializeBoundary

SpecResolve == InitResolve /\ [][NextResolve]_vars

\* ------------------------------------------------------------------------
\* Specification of the Changeset operations __add__, __len__ and to_dict
\* ------------------------------------------------------------------------
MaxActions == 2

\* Changeset.__add__ with the operands exchanged
Changeset_add_Reversed(self, other) ==
    [record_actions   |-> other.record_actions \o self.record_actions,
     field_actions    |-> other.field_actions \o self.field_actions,
     form_actions     |-> other.form_actions \o self.form_actions,
     database_actions |-> other.database_actions \o self.database_actions]

\* Changeset.__add__
Changeset_add(self, other) ==
    [record_actions   |-> self.record_actions \o other.record_actions,
     field_actions    |-> self.field_actions \o other.field_actions,
     form_actions     |-> self.form_actions \o other.form_actions,
     database_actions |-> self.database_actions \o other.database_actions]

\* Changeset.__len__
Changeset_len(self) ==
    Len(self.record_actions) + Len(self.field_actions) + Len(self.form_actions)
        + Len(self.database_actions)

\* BaseModel.model_dump(by_alias=True) of an action: every attribute of the
\* model with its value, None included (`level` names the list of the action
\* in this model and is no attribute)
model_dump(action) == [name \in (DOMAIN action) \ {"level"} |-> action[name]]

DumpAll(actions) == [n \in DOMAIN actions |-> model_dump(actions[n])]

\* Changeset.to_dict
to_dict(self) ==
    [record_actions   |-> DumpAll(self.record_actions),
     field_actions    |-> DumpAll(self.field_actions),
     form_actions     |-> DumpAll(self.form_actions),
     database_actions |-> DumpAll(self.database_actions)]

\* The action models of scripts/models.py, each level in the order of its
\* Union: the level, the declared type of TYPE (a Literal of one value), the
\* default of TYPE, the attributes and the ones that have a default.
ActionModel(level, tag, default_tag, attributes, defaulted) ==
    [level |-> level, tag |-> tag, default_tag |-> default_tag,
     attributes |-> {"TYPE", "origin"} \cup attributes, defaulted |-> {"TYPE"} \cup defaulted]

RecordBase == {"form_id", "record_id", "parent_record_id"}
FieldBase == {"database_id", "form_id", "field_id"}
FormBase == {"form_id", "database_id"}
DatabaseBase == {"database_id"}

FormUpdateModel == ActionModel("form", "DELETE", "UPDATE", FormBase \cup {"old_label", "new_label"}, {})

ActionModels ==
    << ActionModel("record", "CREATE", "CREATE", RecordBase \cup {"fields"}, {"parent_record_id"}),
       ActionModel("record", "UPDATE", "UPDATE",
                   RecordBase \cup {"field_code", "field_value", "old_field_value"},
                   {"parent_record_id", "old_field_value"}),
       ActionModel("record", "DELETE", "DELETE", RecordBase, {"parent_record_id"}),
       ActionModel("field", "CREATE", "CREATE", FieldBase \cup {"payload"}, {}),
       ActionModel("field", "UPDATE", "UPDATE", FieldBase \cup {"old_field", "new_field"}, {}),
       ActionModel("field", "DELETE", "DELETE", FieldBase, {}),
       ActionModel("form", "CREATE", "CREATE", FormBase \cup {"label"}, {}),
       FormUpdateModel,
       ActionModel("form", "DELETE", "DELETE", FormBase, {}),
       ActionModel("database", "CREATE", "CREATE", DatabaseBase \cup {"label", "description"}, {}),
       ActionModel("database", "UPDATE", "UPDATE", DatabaseBase \cup {"old_database", "new_database"}, {}),
       ActionModel("database", "DELETE", "DELETE", DatabaseBase, {}) >>

\* the model an action is an instance of
ModelOf(action) ==
    CHOOSE k \in DOMAIN ActionModels :
        /\ ActionModels[k].level = action.level
        /\ ActionModels[k].attributes = (DOMAIN action) \ {"level"}

\* validation of a dict against one model: every attribute without a default
\* must be present and a TYPE that is present must be of the declared type
\* (the default of TYPE is not validated); attributes the model does not
\* declare are ignored
Admits(model, data) ==
    /\ (model.attributes \ model.defaulted) \subseteq DOMAIN data
    /\ "TYPE" \in DOMAIN data => data.TYPE = model.tag

Validated(model, data) ==
    [name \in model.attributes \cup {"level"} |->
        IF name = "level" THEN model.level
        ELSE IF name \in DOMAIN data THEN data[name]
        ELSE IF name = "TYPE" THEN model.default_tag
        ELSE NoneV]

\* validation of a dict against the Union of a level: the models that admit it
Candidates(level, data) ==
    {k \in DOMAIN ActionModels : ActionModels[k].level = level /\ Admits(ActionModels[k], data)}

ValidateList(level, list) ==
    [n \in DOMAIN list |->
        IF Candidates(level, list[n]) = {} THEN [level |-> "error"]
        ELSE Validated(ActionModels[SetMin(Candidates(level, list[n]))], list[n])]

ValidateLists(data) ==
    [record_actions   |-> ValidateList("record", data.record_actions),
     field_actions    |-> ValidateList("field", data.field_actions),
     form_actions     |-> ValidateList("form", data.form_actions),
     database_actions |-> ValidateList("database", data.database_actions)]

HasError(changeset) ==
    \E name \in DOMAIN changeset : \E n \in DOMAIN changeset[name] : changeset[name][n].level = "error"

\* Changeset.model_validate(data): the changeset, or ValidationError when a
\* list holds a dict no model of its Union admits
Changeset_validate(data) ==
    IF HasError(ValidateLists(data))
    THEN [raised |-> TRUE, changeset |-> EmptyChangeset]
    ELSE [raised |-> FALSE, changeset |-> ValidateLists(data)]

RecordActionValues ==
    {RecordDeleteAction("f1", Str("r1")),
     RecordUpdateAction("f1", Str("r1"), "NOTE", Str(""), NoneV),
     RecordUpdateAction("f1", Str("r2"), "NOTE", NoneV, Str("x"))}

RecordCreated == [RecordCreateAction("f1", [key \in {"AMT"} |-> Num(10)]) EXCEPT !.record_id = Str("r3")]

ScenarioField == [id |-> Str("c1"), code |-> Str("AMT"), label |-> "Amount"]

FieldActionValues ==
    {FieldDeleteAction("d1", "f1", Str("x1")),
     FieldUpdateAction("d1", "f1", Str("c1"), ScenarioField, [ScenarioField EXCEPT !.label = "Sum"]),
     SetKey(FieldCreateAction("d1", "f1", ScenarioField), "field_id", Str("c2"))}

FormActionValues ==
    {FormUpdateAction("f1", "d1", "Old", "New"),
     FormDeleteAction("f1", "d1"),
     FormCreateAction("New", "d1")}

DatabaseActionValues ==
    {DatabaseDeleteAction("d1"),
     DatabaseCreateAction("B", "x"),
     DatabaseUpdateAction("d1", Database("d1", "A", "x", <<>>), Database("d1", "B", "x", <<>>))}

Changesets ==
    [record_actions   : SeqsUpTo(RecordActionValues, MaxActions) \cup {<<RecordCreated>>},
     field_actions    : SeqsUpTo(FieldActionValues, 1),
     form_actions     : SeqsUpTo(FormActionValues, 1),
     database_actions : SeqsUpTo(DatabaseActionValues, 1)]

OtherChangesets ==
    [record_actions   : SeqsUpTo(RecordActionValues, MaxActions),
     field_actions    : {<<>>},
     form_actions     : {<<>>, <<FormUpdateAction("f1", "d1", "Old", "New")>>},
     database_actions : {<<>>}]

InitChangeset ==
    /\ cstage = "start"
    /\ self_changeset \in Changesets
    /\ other_changeset \in OtherChangesets
    /\ sum_changeset = EmptyChangeset
    /\ wire = <<>>
    /\ restored = <<>>
    /\ MatchIdle
    /\ DiffIdle
    /\ RecordsIdle
    /\ MaterializeIdle
    /\ IdentifierIdle
    /\ ResolveIdle
    /\ ExecuteIdle
    /\ RequestIdle
    /\ MappingsIdle
    /\ FanOutIdle

\* sum_changeset = self_changeset + other_changeset
AddChangesets ==
    /\ cstage = "start"
    /\ sum_changeset' = Changeset_add(self_changeset, other_changeset)
    /\ cstage' = "added"
    /\ UNCHANGED <<self_changeset, other_changeset, wire, restored>>
    /\ UNCHANGED <<matchVars, diffVars, recVars, matVars, idVars, resVars, exVars, rqVars, fmVars, foVars>>

\* wire = sum_changeset.to_dict()
ToDict ==
    /\ cstage = "added"
    /\ wire' = to_dict(sum_changeset)
    /\ cstage' = "done"
    /\ UNCHANGED <<self_changeset, other_changeset, sum_changeset, restored>>
    /\ UNCHANGED <<matchVars, diffVars, recVars, matVars, idVars, resVars, exVars, rqVars, fmVars, foVars>>

\* restored = Changeset.model_validate(wire)
ValidateWire ==
    /\ cstage = "done"
    /\ restored' = Changeset_validate(wire)
    /\ cstage' = "validated"
    /\ UNCHANGED <<self_changeset, other_changeset, sum_changeset, wire>>
    /\ UNCHANGED <<matchVars, diffVars, recVars, matVars, idVars, resVars, exVars, rqVars, fmVars, foVars>>

NextChangeset == AddChangesets \/ ToDict \/ ValidateWire

SpecChangeset == InitChangeset /\ [][NextChangeset]_vars

\* ------------------------------------------------------------------------
\* Specification of AIRScript.execute: four activities awaited one after the
\* other, each under RetryPolicy(maximum_attempts=2). `execution` holds the
\* local variables of execute; Unset marks one not yet assigned.
\* ------------------------------------------------------------------------
maximum_attempts == 2

Activities ==
    <<"generate_script_boundary", "materialize_boundary", "generate_desired_schema",
      "generate_changeset">>

Unset == "unset"

\* a retry policy that never gives up
MayRetry_Always(n) == TRUE

\* RetryPolicy(maximum_attempts=2): a failed attempt is followed by another
\* one while fewer than maximum_attempts have been made
MayRetry(n) == n < maximum_attempts

Position(activity) == CHOOSE n \in DOMAIN Activities : Activities[n] = activity

\* the values the activities return
DatabaseIdLists == {<<>>, <<"d1">>, <<"d1", "d2">>}
ActivityWarnings == {<<>>, <<"w">>}

\* the assignment execute makes from the value an activity returned
Assigned(locals, activity, warnings) ==
    CASE activity = "generate_script_boundary" -> [locals EXCEPT !.boundary = locals.database_ids]
      [] activity = "materialize_boundary" ->
            [locals EXCEPT !.materialized_boundary = "blob1", !.warnings = warnings]
      [] activity = "generate_desired_schema" -> [locals EXCEPT !.desired_schema = "blob2"]
      [] OTHER -> [locals EXCEPT !.changeset = "changeset", !.warnings = locals.warnings \o warnings]

InitExecute ==
    /\ wstage = Activities[1]
    /\ attempt = 1
    /\ started = <<Activities[1]>>
    /\ \E database_ids \in DatabaseIdLists :
          execution = [database_ids |-> database_ids, boundary |-> Unset,
                       materialized_boundary |-> Unset, warnings |-> <<>>,
                       desired_schema |-> Unset, changeset |-> Unset]
    /\ MatchIdle
    /\ DiffIdle
    /\ RecordsIdle
    /\ MaterializeIdle
    /\ IdentifierIdle
    /\ ResolveIdle
    /\ ChangesetIdle
    /\ RequestIdle
    /\ MappingsIdle
    /\ FanOutIdle

\* the awaited activity returns: execute assigns its value and awaits the
\* next activity, or returns the AIRScriptExecutionResult
ActivityReturns ==
    /\ wstage \in Range(Activities)
    /\ \E warnings \in ActivityWarnings :
          /\ wstage \in {"materialize_boundary", "generate_changeset"} \/ warnings = <<>>
          /\ execution' = Assigned(execution, wstage, warnings)
    /\ IF Position(wstage) < Len(Activities)
       THEN /\ wstage' = Activities[Position(wstage) + 1]
            /\ started' = Append(started, Activities[Position(wstage) + 1])
       ELSE /\ wstage' = "returned"
            /\ started' = started
    /\ attempt' = 1
    /\ UNCHANGED <<matchVars, diffVars, recVars, matVars, idVars, resVars, csVars, rqVars, fmVars, foVars>>

\* an attempt of the awaited activity fails or times out: it is made again,
\* or execute_activity raises and execute fails
ActivityFails ==
    /\ wstage \in Range(Activities)
    /\ IF MayRetry(attempt)
       THEN /\ attempt' = attempt + 1
            /\ started' = Append(started, wstage)
            /\ wstage' = wstage
       ELSE /\ wstage' = "failed"
            /\ UNCHANGED <<attempt, started>>
    /\ UNCHANGED execution
    /\ UNCHANGED <<matchVars, diffVars, recVars, matVars, idVars, resVars, csVars, rqVars, fmVars, foVars>>

NextExecute == ActivityReturns \/ ActivityFails

SpecExecute == InitExecute /\ [][NextExecute]_vars

\* ------------------------------------------------------------------------
\* Specification of ActivityInfoHTTPClient.request: a loop of at most
\* `retries` HTTP attempts. Each attempt ends with a response, with
\* httpx.TimeoutException or with another transport error.
\* ------------------------------------------------------------------------
MaxRetries == 3

StatusCodes == {200, 399, 400, 401, 500}
Contents == {"", "{\"status\": \"ok\"}"}
ContentTypes == {"", "application/json", "Application/JSON; charset=utf-8", "text/html"}
Responses == [status_code : StatusCodes, content : Contents, content_type : ContentTypes]

\* "application/json" in content_type.lower(), on ContentTypes
IsJson(content_type) == content_type \in {"application/json", "Application/JSON; charset=utf-8"}

RequestReturns(value) == [raised |-> "", value |-> value]
RequestRaises(exception) == [raised |-> exception, value |-> ""]

\* the body of the try block once the response is there
OnResponse(response) ==
    IF response.status_code = 401 THEN RequestRaises("AuthenticationError")
    ELSE IF response.status_code >= 400 THEN RequestRaises("APIError")
    ELSE IF response.content = "" THEN RequestReturns("None")
    ELSE IF ~IsJson(response.content_type) THEN RequestReturns("None")
    ELSE RequestReturns("json")

\* a loop that never takes the timeout for final
IsLastAttempt_Never(n, limit) == FALSE

\* attempt == retries - 1
IsLastAttempt(n, limit) == n = limit - 1

Exchange(n, ended, response) == [attempt |-> n, ended |-> ended, response |-> response]
NoResponse == [status_code |-> 0, content |-> "", content_type |-> ""]

InitRequest ==
    /\ qstage = "loop"
    /\ retries \in 0..MaxRetries
    /\ request_attempt = 0
    /\ exchanges = <<>>
    /\ slept = <<>>
    /\ request_outcome = <<>>
    /\ MatchIdle
    /\ DiffIdle
    /\ RecordsIdle
    /\ MaterializeIdle
    /\ IdentifierIdle
    /\ ResolveIdle
    /\ ChangesetIdle
    /\ ExecuteIdle
    /\ MappingsIdle
    /\ FanOutIdle

RequestFrame == UNCHANGED <<matchVars, diffVars, recVars, matVars, idVars, resVars, csVars, exVars, fmVars, foVars>>

\* for attempt in range(retries): await self._client.request(...)
SendRequest ==
    /\ qstage = "loop"
    /\ request_attempt < retries
    /\ exchanges' = Append(exchanges, Exchange(request_attempt, "pending", NoResponse))
    /\ qstage' = "awaiting"
    /\ UNCHANGED <<retries, request_attempt, slept, request_outcome>>
    /\ RequestFrame

\* the range is exhausted: return None
LoopExhausted ==
    /\ qstage = "loop"
    /\ request_attempt >= retries
    /\ request_outcome' = RequestReturns("None")
    /\ qstage' = "done"
    /\ UNCHANGED <<retries, request_attempt, exchanges, slept>>
    /\ RequestFrame

\* the attempt is answered
ResponseArrives ==
    /\ qstage = "awaiting"
    /\ \E response \in Responses :
          /\ exchanges' = [exchanges EXCEPT ![Len(exchanges)] =
                              Exchange(request_attempt, "response", response)]
          /\ request_outcome' = OnResponse(response)
    /\ qstage' = "done"
    /\ UNCHANGED <<retries, request_attempt, slept>>
    /\ RequestFrame

\* the attempt raises httpx.TimeoutException
AttemptTimesOut ==
    /\ qstage = "awaiting"
    /\ exchanges' = [exchanges EXCEPT ![Len(exchanges)] =
                        Exchange(request_attempt, "timeout", NoResponse)]
    /\ IF IsLastAttempt(request_attempt, retries)
       THEN /\ request_outcome' = RequestRaises("APITimeoutError")
            /\ qstage' = "done"
            /\ UNCHANGED slept
       ELSE /\ slept' = Append(slept, 2 ^ request_attempt)
            /\ qstage' = "sleeping"
            /\ UNCHANGED request_outcome
    /\ UNCHANGED <<retries, request_attempt>>
    /\ RequestFrame

\* the attempt raises an exception that is not a timeout: it leaves request
AttemptErrors ==
    /\ qstage = "awaiting"
    /\ exchanges' = [exchanges EXCEPT ![Len(exchanges)] =
                        Exchange(request_attempt, "error", NoResponse)]
    /\ request_outcome' = RequestRaises("ConnectError")
    /\ qstage' = "done"
    /\ UNCHANGED <<retries, request_attempt, slept>>
    /\ RequestFrame

\* asyncio.sleep returns and the loop takes its next value
SleepEnds ==
    /\ qstage = "sleeping"
    /\ request_attempt' = request_attempt + 1
    /\ qstage' = "loop"
    /\ UNCHANGED <<retries, exchanges, slept, request_outcome>>
    /\ RequestFrame

NextRequest ==
    \/ SendRequest
    \/ LoopExhausted
    \/ ResponseArrives
    \/ AttemptTimesOut
    \/ AttemptErrors
    \/ SleepEnds

SpecRequest == InitRequest /\ [][NextRequest]_vars

\* ------------------------------------------------------------------------
\* Specification of collect_field_mappings: a breadth-first walk over the
\* forms that reference, multiselect-reference and subform fields point at.
\* `platform.schemas` maps each form of the platform to its elements and
\* get_form_schema raises for a form in `platform.failing` or unknown to the
\* platform. An absent or empty str, list or object is "", <<>> or Absent:
\* the code only tests them for truth.
\* ------------------------------------------------------------------------
GraphForms == {"f1", "f2", "f3"}
Dangling == "f9"

Absent == [present |-> FALSE, range |-> <<>>, form_id |-> ""]
TypeParameters(range, form_id) == [present |-> TRUE, range |-> range, form_id |-> form_id]
RangeEntry(formId, formClassId) == [formId |-> formId, formClassId |-> formClassId]
SchemaElement(id, code, type, type_parameters) ==
    [id |-> id, code |-> code, type |-> type, type_parameters |-> type_parameters]

\* el.type.upper(), on the element types of the model
Upper(type) ==
    CASE type \in {"reference", "REFERENCE"} -> "REFERENCE"
      [] type = "multiselectReference" -> "MULTISELECTREFERENCE"
      [] type = "subform" -> "SUBFORM"
      [] type = "calculated" -> "CALCULATED"
      [] OTHER -> "FREE_TEXT"

\* a walk that maps every element, coded or not
IsCoded_Any(el) == TRUE

\* if el.code:
IsCoded(el) == Truthy(el.code)

\* r.get("formId") or r.get("formClassId")
RefFormId(r) == IF r.formId # "" THEN r.formId ELSE r.formClassId

\* ref_form_id not in visited_forms and ref_form_id not in pending_forms
Unseen(ref_form_id, visited, pending) ==
    ref_form_id \notin visited /\ ref_form_id \notin Range(pending)

\* for r in el.type_parameters.range: ...
RECURSIVE AppendRange(_, _, _, _)
AppendRange(range, k, visited, pending) ==
    IF k > Len(range) THEN pending
    ELSE LET ref_form_id == RefFormId(range[k]) IN
         AppendRange(range, k + 1, visited,
                     IF ref_form_id # "" /\ Unseen(ref_form_id, visited, pending)
                     THEN Append(pending, ref_form_id) ELSE pending)

\* the two link tests made on one element
AfterElement(el, visited, pending) ==
    LET ranged == IF /\ Upper(el.type) \in {"REFERENCE", "MULTISELECTREFERENCE"}
                     /\ el.type_parameters.present
                     /\ el.type_parameters.range # <<>>
                  THEN AppendRange(el.type_parameters.range, 1, visited, pending)
                  ELSE pending
    IN IF /\ Upper(el.type) = "SUBFORM"
          /\ el.type_parameters.present
          /\ el.type_parameters.form_id # ""
          /\ Unseen(el.type_parameters.form_id, visited, ranged)
       THEN Append(ranged, el.type_parameters.form_id)
       ELSE ranged

\* for el in schema.elements: ...
RECURSIVE AfterElements(_, _, _, _, _)
AfterElements(elements, k, maps, visited, pending) ==
    IF k > Len(elements) THEN [mappings |-> maps, pending_forms |-> pending]
    ELSE LET el == elements[k] IN
         AfterElements(elements, k + 1,
                       IF IsCoded(el)
                       THEN [id \in DOMAIN maps \cup {el.id} |->
                                IF id = el.id THEN el.code ELSE maps[id]]
                       ELSE maps,
                       visited, AfterElement(el, visited, pending))

Fetchable(form_id) == form_id \in DOMAIN platform.schemas /\ form_id \notin platform.failing

\* the elements every form of a graph has: a coded and an uncoded text field
OwnElements(form) ==
    <<SchemaElement(<<form, "coded">>, Str(form), "FREE_TEXT", Absent),
      SchemaElement(<<form, "plain">>, NoneV, "FREE_TEXT", Absent)>>

\* a field of `form` that points at `target`, in each of the ways the
\* platform has
LinkKinds == {"formId", "formClassId", "multiselect", "subform"}
Link(form, target, kind) ==
    CASE kind = "formId" ->
            SchemaElement(<<form, target>>, Str(target), "reference",
                          TypeParameters(<<RangeEntry(target, "")>>, ""))
      [] kind = "formClassId" ->
            SchemaElement(<<form, target>>, NoneV, "REFERENCE",
                          TypeParameters(<<RangeEntry("", target)>>, ""))
      [] kind = "multiselect" ->
            SchemaElement(<<form, target>>, Str(target), "multiselectReference",
                          TypeParameters(<<RangeEntry(target, "")>>, ""))
      [] OTHER ->
            SchemaElement(<<form, target>>, Str(target), "subform",
                          TypeParameters(<<>>, target))

\* fields that look like links and are none, and fields without a code
Oddities ==
    {SchemaElement(<<"f1", "o1">>, Str("R"), "reference", Absent),
     SchemaElement(<<"f1", "o2">>, Str("R"), "reference", TypeParameters(<<>>, "f2")),
     SchemaElement(<<"f1", "o3">>, Str("R"), "reference",
                   TypeParameters(<<RangeEntry("", "")>>, "")),
     SchemaElement(<<"f1", "o4">>, Str("K"), "calculated",
                   TypeParameters(<<RangeEntry("f2", "")>>, "f2")),
     SchemaElement(<<"f1", "o5">>, Str("S"), "subform", TypeParameters(<<>>, "")),
     SchemaElement(<<"f1", "o6">>, Str("S"), "subform",
                   TypeParameters(<<RangeEntry("f2", "")>>, "")),
     SchemaElement(<<"f1", "o7">>, Str(""), "FREE_TEXT", Absent),
     SchemaElement(<<"f1", "o8">>, Str("M"), "multiselectReference",
                   TypeParameters(<<RangeEntry("f2", ""), RangeEntry("f2", "f3"),
                                    RangeEntry("", "f3")>>, "")),
     SchemaElement(<<"f1", "o9">>, Str("D"), "reference",
                   TypeParameters(<<RangeEntry(Dangling, "")>>, ""))}

LinkElements(form, targets, kind) ==
    LET order == SeqOf(targets) IN [k \in DOMAIN order |-> Link(form, order[k], kind)]

InitMappings ==
    /\ fstage = "loop"
    /\ \/ \E targets \in [GraphForms -> SUBSET GraphForms], kind \in LinkKinds,
            failing \in {{}} \cup {{form} : form \in GraphForms} :
             platform = [schemas |-> [form \in GraphForms |->
                                         OwnElements(form) \o
                                         LinkElements(form, targets[form], kind)],
                         failing |-> failing]
       \/ \E odd \in SeqsUpTo(Oddities, 2), failing \in {{}, {"f2"}} :
             platform = [schemas |-> [form \in GraphForms |->
                                         IF form = "f1" THEN odd \o OwnElements(form)
                                         ELSE OwnElements(form)],
                         failing |-> failing]
    /\ start_form_id \in {"f1", Dangling}
    /\ form_id_local = ""
    /\ mappings = <<>>
    /\ visited_forms = {}
    /\ pending_forms = <<start_form_id>>
    /\ fetches = <<>>
    /\ MatchIdle
    /\ DiffIdle
    /\ RecordsIdle
    /\ MaterializeIdle
    /\ IdentifierIdle
    /\ ResolveIdle
    /\ ChangesetIdle
    /\ ExecuteIdle
    /\ RequestIdle
    /\ FanOutIdle

MappingsFrame == UNCHANGED <<matchVars, diffVars, recVars, matVars, idVars, resVars, csVars, exVars, rqVars, foVars>>

\* form_id = pending_forms.pop(0); a visited form is skipped, any other one
\* is marked visited and its schema is asked for
PopForm ==
    /\ fstage = "loop"
    /\ pending_forms # <<>>
    /\ form_id_local' = Head(pending_forms)
    /\ pending_forms' = Tail(pending_forms)
    /\ IF Head(pending_forms) \in visited_forms
       THEN UNCHANGED <<fstage, visited_forms, fetches>>
       ELSE /\ visited_forms' = visited_forms \cup {Head(pending_forms)}
            /\ fetches' = Append(fetches, Head(pending_forms))
            /\ fstage' = "fetching"
    /\ UNCHANGED <<platform, start_form_id, mappings>>
    /\ MappingsFrame

\* get_form_schema returns: the elements are mapped and their links queued
SchemaArrives ==
    /\ fstage = "fetching"
    /\ Fetchable(form_id_local)
    /\ LET after == AfterElements(platform.schemas[form_id_local], 1, mappings,
                                  visited_forms, pending_forms)
       IN /\ mappings' = after.mappings
          /\ pending_forms' = after.pending_forms
    /\ fstage' = "loop"
    /\ UNCHANGED <<platform, start_form_id, form_id_local, visited_forms, fetches>>
    /\ MappingsFrame

\* get_form_schema raises: a warning is logged and the loop goes on
FetchFails ==
    /\ fstage = "fetching"
    /\ ~Fetchable(form_id_local)
    /\ fstage' = "loop"
    /\ UNCHANGED <<platform, start_form_id, form_id_local, mappings, visited_forms,
                   pending_forms, fetches>>
    /\ MappingsFrame

\* pending_forms is empty: return mappings
ReturnMappings ==
    /\ fstage = "loop"
    /\ pending_forms = <<>>
    /\ fstage' = "returned"
    /\ UNCHANGED <<platform, start_form_id, form_id_local, mappings, visited_forms,
                   pending_forms, fetches>>
    /\ MappingsFrame

NextMappings == PopForm \/ SchemaArrives \/ FetchFails \/ ReturnMappings

\* every schema request is answered and the loop runs on between requests
SpecMappings == InitMappings /\ [][NextMappings]_vars /\ WF_vars(NextMappings)

\* ---------------------------------------------------------------------------
\* materialize_boundary over many like databases (scripts/boundaries.py).
\* One database boundary matches matching_count databases and its one form
\* boundary matches forms_per_database forms in each of them.  The database
\* tasks run the same code on like inputs, so the state keeps how many of them
\* stand at each point of with_semaphore(materialize_form_boundaries(...)).
\* ---------------------------------------------------------------------------
MaxMatching == 11

\* where a database task stands: waiting for its slot; awaiting
\* get_database_tree; holding its slot while its form task waits for one;
\* its form task awaiting get_form_schema, then get_form; its form task
\* ended (returned or raised); itself ended (returned or raised)
TaskPoints == {"queued", "tree", "forms", "schema", "records", "ended", "ended_raised", "returned", "raised"}

Move(counts, from, to) == [counts EXCEPT ![from] = @ - 1, ![to] = @ + 1]

InitFanOut ==
    /\ fan_stage = "listing"
    /\ matching_count \in 0..MaxMatching
    /\ forms_per_database \in {0, 1}
    /\ crowd = [p \in TaskPoints |-> 0]
    /\ slots = CONCURRENCY_LIMIT
    /\ MatchIdle /\ DiffIdle /\ RecordsIdle /\ MaterializeIdle /\ IdentifierIdle
    /\ ResolveIdle /\ ChangesetIdle /\ ExecuteIdle /\ RequestIdle /\ MappingsIdle

FanOutFrame == UNCHANGED <<matchVars, diffVars, recVars, matVars, idVars, resVars, csVars, exVars, rqVars, fmVars>>

\* existing_databases = await client.api.get_user_databases(); the tasks of
\* the database boundary are created and gathered
DatabasesListed ==
    /\ fan_stage = "listing"
    /\ \E ok \in BOOLEAN :
        IF ok
        THEN /\ fan_stage' = "joining"
             /\ crowd' = [crowd EXCEPT !["queued"] = matching_count]
        ELSE /\ fan_stage' = "raised"
             /\ crowd' = crowd
    /\ UNCHANGED <<matching_count, forms_per_database, slots>>
    /\ FanOutFrame

\* async with CONCURRENCY_LIMIT, entered by a database task
DatabaseTaskEnters ==
    /\ fan_stage = "joining"
    /\ crowd["queued"] > 0
    /\ CanAcquire(slots)
    /\ slots' = Acquire(slots)
    /\ crowd' = Move(crowd, "queued", "tree")
    /\ UNCHANGED <<fan_stage, matching_count, forms_per_database>>
    /\ FanOutFrame

\* tree = await client.api.get_database_tree(database_id): an error ends the
\* database task; without matching forms it returns; otherwise the form
\* task is created and gathered while the database task keeps its slot
TreeArrives ==
    /\ fan_stage = "joining"
    /\ crowd["tree"] > 0
    /\ \E ok \in BOOLEAN :
        IF ~ok
        THEN /\ crowd' = Move(crowd, "tree", "raised")
             /\ slots' = Release(slots)
        ELSE IF forms_per_database = 0
        THEN /\ crowd' = Move(crowd, "tree", "returned")
             /\ slots' = Release(slots)
        ELSE /\ crowd' = Move(crowd, "tree", "forms")
             /\ slots' = slots
    /\ UNCHANGED <<fan_stage, matching_count, forms_per_database>>
    /\ FanOutFrame

\* async with CONCURRENCY_LIMIT, entered by a form task
FormTaskEnters ==
    /\ fan_stage = "joining"
    /\ crowd["forms"] > 0
    /\ CanAcquire(slots)
    /\ slots' = Acquire(slots)
    /\ crowd' = Move(crowd, "forms", "schema")
    /\ UNCHANGED <<fan_stage, matching_count, forms_per_database>>
    /\ FanOutFrame

\* the form task's get_form_schema call completes
SchemaAnswers ==
    /\ fan_stage = "joining"
    /\ crowd["schema"] > 0
    /\ \E ok \in BOOLEAN :
        IF ok
        THEN /\ crowd' = Move(crowd, "schema", "records")
             /\ slots' = slots
        ELSE /\ crowd' = Move(crowd, "schema", "ended_raised")
             /\ slots' = Release(slots)
    /\ UNCHANGED <<fan_stage, matching_count, forms_per_database>>
    /\ FanOutFrame

\* the form task's record query completes and the form task ends
RecordsAnswer ==
    /\ fan_stage = "joining"
    /\ crowd["records"] > 0
    /\ \E ok \in BOOLEAN :
        crowd' = Move(crowd, "records", IF ok THEN "ended" ELSE "ended_raised")
    /\ slots' = Release(slots)
    /\ UNCHANGED <<fan_stage, matching_count, forms_per_database>>
    /\ FanOutFrame

\* task_results = await asyncio.gather(*tasks, return_exceptions=True) in
\* materialize_form_boundaries, then the database task returns or raises
\* and leaves async with
FormTasksJoined ==
    /\ fan_stage = "joining"
    /\ \E p \in {"ended", "ended_raised"} :
        /\ crowd[p] > 0
        /\ crowd' = Move(crowd, p, IF p = "ended" THEN "returned" ELSE "raised")
    /\ slots' = Release(slots)
    /\ UNCHANGED <<fan_stage, matching_count, forms_per_database>>
    /\ FanOutFrame

\* task_results = await asyncio.gather(*tasks, return_exceptions=True) in
\* materialize_boundary: every database task has ended
DatabaseTasksJoined ==
    /\ fan_stage = "joining"
    /\ crowd["returned"] + crowd["raised"] = matching_count
    /\ fan_stage' = IF crowd["raised"] > 0 THEN "raised" ELSE "returned"
    /\ UNCHANGED <<matching_count, forms_per_database, crowd, slots>>
    /\ FanOutFrame

NextFanOut ==
    \/ DatabasesListed
    \/ DatabaseTaskEnters
    \/ TreeArrives
    \/ FormTaskEnters
    \/ SchemaAnswers
    \/ RecordsAnswer
    \/ FormTasksJoined
    \/ DatabaseTasksJoined

\* every remote call completes and every task that can run does run
SpecFanOut == InitFanOut /\ [][NextFanOut]_vars /\ WF_vars(NextFanOut)

\* ------------------------------------------------------------------------
\* Properties of the differ (SpecDiff)
\* ------------------------------------------------------------------------
Returned == stage = "done" /\ ~outcome.raised

Unindexed(ids, i) == ~Truthy(ids[i]) \/ \E j \in DOMAIN ids : j > i /\ PyEq(ids[i], ids[j])
SelfMatching(ids, keys) ==
    \A i, j \in DOMAIN ids : (i < j /\ Unindexed(ids, i) /\ Unindexed(ids, j)) => keys[i] # keys[j]

FormSelfMatching(form) ==
    /\ SelfMatching([i \in DOMAIN form.fields |-> FieldId(form.fields[i])],
                    [i \in DOMAIN form.fields |-> FieldFallbackKey(form.fields[i])])
    /\ SelfMatching([i \in DOMAIN form.records |-> RecordId(form.records[i])],
                    [i \in DOMAIN form.records |-> RecordFallbackKey(form.records[i])])

DatabaseSelfMatching(db) ==
    /\ SelfMatching([i \in DOMAIN db.forms |-> Str(db.forms[i].id)],
                    [i \in DOMAIN db.forms |-> db.forms[i].label])
    /\ \A f \in DOMAIN db.forms : FormSelfMatching(db.forms[f])

SnapshotSelfMatching(snapshot) ==
    /\ SelfMatching([i \in DOMAIN snapshot.databases |-> Str(snapshot.databases[i].databaseId)],
                    [i \in DOMAIN snapshot.databases |-> snapshot.databases[i].label])
    /\ \A d \in DOMAIN snapshot.databases : DatabaseSelfMatching(snapshot.databases[d])

ScenarioDesired(field, value) ==
    [ScenarioSnapshot EXCEPT !.databases[1].forms[1].fields = Append(@, field),
                             !.databases[1].forms[1].records[1] = SetKey(@, "AMT", value)]

\* C6: in the end-to-end scenario generate_changeset completes with exactly
\* one Field-Create carrying the new field, exactly one Record-Update for
\* r1/AMT with the old and the new value, and no Database or Form action.
C6_EndToEnd ==
    \A field \in Fields, value \in FieldValues :
        (/\ stage = "done"
         /\ materialized_boundary = ScenarioSnapshot
         /\ ~Truthy(field.id) /\ field.code = Str("NOTE")
         /\ ~are_values_equal(Num(10), value)
         /\ desired_schema = ScenarioDesired(field, value)) =>
            /\ ~outcome.raised
            /\ Len(outcome.changeset.field_actions) = 1
            /\ outcome.changeset.field_actions[1].TYPE = "CREATE"
            /\ outcome.changeset.field_actions[1].payload = FieldDump(field)
            /\ outcome.changeset.record_actions =
                  << RecordUpdateAction("f1", Str("r1"), "AMT", value, Num(10)) >>
            /\ outcome.changeset.form_actions = <<>>
            /\ outcome.changeset.database_actions = <<>>

\* desired with the forms of every database that the database-level match
\* leaves unmatched removed
WithoutChildrenOfCreated(cur_schema, des_schema) ==
    LET created == Range(MatchDatabases(cur_schema.databases, des_schema.databases).creates)
    IN [databases |-> [j \in DOMAIN des_schema.databases |->
                          IF j \in created
                          THEN [des_schema.databases[j] EXCEPT !.forms = <<>>]
                          ELSE des_schema.databases[j]]]

CreatedDatabases(cur_schema, des_schema) ==
    LET creates == MatchDatabases(cur_schema.databases, des_schema.databases).creates
    IN [k \in DOMAIN creates |-> des_schema.databases[creates[k]]]

ActionsOfType(actions, type) == SelectSeq(actions, LAMBDA a : a.TYPE = type)

\* C9: every desired database left unmatched yields exactly one
\* Database-Create (in order, carrying its label and description), and its
\* forms, fields and records yield nothing: the outcome is the one obtained
\* when those databases have no forms at all.
C9_NoChildrenOfCreated ==
    stage = "done" =>
        /\ outcome = generate_changeset(materialized_boundary,
                                        WithoutChildrenOfCreated(materialized_boundary, desired_schema))
        /\ ~outcome.raised =>
              LET created == CreatedDatabases(materialized_boundary, desired_schema)
              IN ActionsOfType(outcome.changeset.database_actions, "CREATE") =
                    [k \in DOMAIN created |-> DatabaseCreateAction(created[k].label, created[k].description)]

\* a returned changeset for a desired snapshot that adds a database with a
\* form, a field and a record, next to a matched database whose record changed
C9_Witness ==
    /\ Returned
    /\ \E k \in DOMAIN CreatedDatabases(materialized_boundary, desired_schema) :
          LET db == CreatedDatabases(materialized_boundary, desired_schema)[k]
          IN db.forms # <<>> /\ db.forms[1].fields # <<>> /\ db.forms[1].records # <<>>
    /\ Len(ActionsOfType(outcome.changeset.database_actions, "CREATE")) = 1
    /\ outcome.changeset.record_actions # <<>>

\* ---- applying a changeset to a snapshot (C8) ----
\* create adds the resource, delete removes the addressed resource, update
\* replaces the old value by the new one; resources are addressed by the ids
\* the actions carry.
RECURSIVE ApplyRecordUpdates(_, _, _, _, _)
ApplyRecordUpdates(form_id, record_id, r, acts, k) ==
    IF k > Len(acts) THEN r
    ELSE ApplyRecordUpdates(form_id, record_id,
             IF acts[k].TYPE = "UPDATE" /\ acts[k].form_id = form_id /\ acts[k].record_id = record_id
             THEN SetKey(r, acts[k].field_code, acts[k].field_value)
             ELSE r,
             acts, k + 1)

ApplyRecords(form_id, records, acts) ==
    LET kept == SelectSeq(records, LAMBDA r :
                    ~\E a \in Range(acts) :
                        a.TYPE = "DELETE" /\ a.form_id = form_id /\ a.record_id = RecordId(r))
        created == SelectSeq(acts, LAMBDA a : a.TYPE = "CREATE" /\ a.form_id = form_id)
    IN [k \in DOMAIN kept |-> ApplyRecordUpdates(form_id, RecordId(kept[k]), kept[k], acts, 1)]
       \o [k \in DOMAIN created |-> created[k].fields]

ApplyFields(database_id, form_id, fields, acts) ==
    LET mine == SelectSeq(acts, LAMBDA a : a.database_id = database_id /\ a.form_id = form_id)
        kept == SelectSeq(fields, LAMBDA f :
                    ~\E a \in Range(mine) : a.TYPE = "DELETE" /\ a.field_id = f.id)
        created == ActionsOfType(mine, "CREATE")
    IN [k \in DOMAIN kept |->
           IF \E a \in Range(mine) : a.TYPE = "UPDATE" /\ a.field_id = kept[k].id
           THEN (CHOOSE a \in Range(mine) : a.TYPE = "UPDATE" /\ a.field_id = kept[k].id).new_field
           ELSE kept[k]]
       \o [k \in DOMAIN created |->
              [id |-> NoneV, code |-> created[k].payload.code, label |-> created[k].payload.label]]

ApplyForms(database_id, forms, cs) ==
    LET mine == SelectSeq(cs.form_actions, LAMBDA a : a.database_id = database_id)
        kept == SelectSeq(forms, LAMBDA f :
                    ~\E a \in Range(mine) : a.TYPE = "DELETE" /\ a.form_id = f.id)
        created == ActionsOfType(mine, "CREATE")
    IN [k \in DOMAIN kept |->
           Form(kept[k].id, kept[k].databaseId,
                IF \E a \in Range(mine) : a.TYPE = "UPDATE" /\ a.form_id = kept[k].id
                THEN (CHOOSE a \in Range(mine) : a.TYPE = "UPDATE" /\ a.form_id = kept[k].id).new_label
                ELSE kept[k].label,
                ApplyFields(database_id, kept[k].id, kept[k].fields, cs.field_actions),
                ApplyRecords(kept[k].id, kept[k].records, cs.record_actions))]
       \o [k \in DOMAIN created |-> Form("", database_id, created[k].label, <<>>, <<>>)]

Apply(cs, snapshot) ==
    LET acts == cs.database_actions
        kept == SelectSeq(snapshot.databases, LAMBDA db :
                    ~\E a \in Range(acts) : a.TYPE = "DELETE" /\ a.database_id = db.databaseId)
        created == ActionsOfType(acts, "CREATE")
        Updated(db) == \E a \in Range(acts) : a.TYPE = "UPDATE" /\ a.database_id = db.databaseId
        New(db) == (CHOOSE a \in Range(acts) :
                        a.TYPE = "UPDATE" /\ a.database_id = db.databaseId).new_database
    IN [databases |->
           [k \in DOMAIN kept |->
               Database(kept[k].databaseId,
                        IF Updated(kept[k]) THEN New(kept[k]).label ELSE kept[k].label,
                        IF Updated(kept[k]) THEN New(kept[k]).description ELSE kept[k].description,
                        ApplyForms(kept[k].databaseId, kept[k].forms, cs))]
           \o [k \in DOMAIN created |-> Database("", created[k].label, created[k].description, <<>>)]]

\* a snapshot up to the ids of its resources, the order of siblings and
\* blank record fields
BagOf(seq) == [x \in Range(seq) |-> Cardinality({k \in DOMAIN seq : seq[k] = x})]
\* a record without its @id and without the fields the differ's equality
\* does not tell from an absent one (None, "")
RecordShape(r) ==
    [key \in {code \in DOMAIN r \ {"@id"} : ~are_values_equal(r[code], NoneV)} |-> AsScalar(r[key])]
FormShape(form) ==
    [label   |-> form.label,
     fields  |-> BagOf([k \in DOMAIN form.fields |-> FieldDump(form.fields[k])]),
     records |-> BagOf([k \in DOMAIN form.records |-> RecordShape(form.records[k])])]
DatabaseShape(db) ==
    [label |-> db.label, description |-> db.description,
     forms |-> BagOf([k \in DOMAIN db.forms |-> FormShape(db.forms[k])])]
Shape(snapshot) == BagOf([k \in DOMAIN snapshot.databases |-> DatabaseShape(snapshot.databases[k])])

AllDistinctIds(ids) ==
    \A i \in DOMAIN ids : Truthy(ids[i]) /\ \A j \in DOMAIN ids : ids[i] = ids[j] => i = j
\* no set id of `ids` is carried twice
NoRepeatedId(ids) ==
    \A i, j \in DOMAIN ids : (Truthy(ids[i]) /\ ids[i] = ids[j]) => i = j

AllForms(snapshot) ==
    {<<d, f>> : d \in DOMAIN snapshot.databases, f \in 1..2} \cap
    {p \in (DOMAIN snapshot.databases) \X (1..2) : p[2] \in DOMAIN snapshot.databases[p[1]].forms}

\* current as materialization delivers it: every database, form, field and
\* record has an id, database and form ids are carried once in the snapshot,
\* field and record ids once in their form, and a form's databaseId is the id
\* of its database
Addressable(snapshot) ==
    /\ AllDistinctIds([d \in DOMAIN snapshot.databases |-> Str(snapshot.databases[d].databaseId)])
    /\ \A p, q \in AllForms(snapshot) :
          /\ snapshot.databases[p[1]].forms[p[2]].databaseId = snapshot.databases[p[1]].databaseId
          /\ snapshot.databases[p[1]].forms[p[2]].id # ""
          /\ snapshot.databases[p[1]].forms[p[2]].id = snapshot.databases[q[1]].forms[q[2]].id => p = q
    /\ \A p \in AllForms(snapshot) :
          LET form == snapshot.databases[p[1]].forms[p[2]]
          IN /\ AllDistinctIds([k \in DOMAIN form.fields |-> FieldId(form.fields[k])])
             /\ AllDistinctIds([k \in DOMAIN form.records |-> RecordId(form.records[k])])

\* desired carries no set database or form id twice among siblings; a desired
\* database that has forms carries the id of a current database, and a desired
\* form that has fields or records carries the id of a current form of the
\* database with the same id
ChildrenUnderExisting(cur_schema, des_schema) ==
    /\ NoRepeatedId([d \in DOMAIN des_schema.databases |-> Str(des_schema.databases[d].databaseId)])
    /\ \A d \in DOMAIN des_schema.databases :
          LET db == des_schema.databases[d]
          IN /\ NoRepeatedId([f \in DOMAIN db.forms |-> Str(db.forms[f].id)])
             /\ \A f \in DOMAIN db.forms : db.forms[f].databaseId = db.databaseId
             /\ db.forms # <<>> =>
                   \E c \in DOMAIN cur_schema.databases :
                       /\ cur_schema.databases[c].databaseId = db.databaseId
                       /\ \A f \in DOMAIN db.forms :
                             (db.forms[f].fields # <<>> \/ db.forms[f].records # <<>>) =>
                                 \E g \in DOMAIN cur_schema.databases[c].forms :
                                     cur_schema.databases[c].forms[g].id = db.forms[f].id

AllRecords(snapshot) ==
    UNION {Range(snapshot.databases[p[1]].forms[p[2]].records) : p \in AllForms(snapshot)}

\* no desired record lacks a field code that a current record carries
CodesKept(cur_schema, des_schema) ==
    \A cr \in AllRecords(cur_schema), dr \in AllRecords(des_schema) :
        (DOMAIN cr) \ {"@id"} \subseteq DOMAIN dr

C19_AlwaysReturns == stage = "done" => ~outcome.raised

\* the snapshot holds one database d1 with one form f1
OneFormSnapshot(snapshot) ==
    /\ Len(snapshot.databases) = 1
    /\ snapshot.databases[1].databaseId = "d1"
    /\ Len(snapshot.databases[1].forms) = 1
    /\ snapshot.databases[1].forms[1].id = "f1"

CurrentFields == materialized_boundary.databases[1].forms[1].fields
DesiredFields == desired_schema.databases[1].forms[1].fields

\* the Field-Updates returned for the pair (current_f, desired_f)
FieldUpdatesFor(current_f, desired_f) ==
    {k \in DOMAIN outcome.changeset.field_actions :
        /\ outcome.changeset.field_actions[k].TYPE = "UPDATE"
        /\ outcome.changeset.field_actions[k].field_id = current_f.id
        /\ outcome.changeset.field_actions[k].old_field = current_f
        /\ outcome.changeset.field_actions[k].new_field = desired_f}

\* the two definitions differ in an attribute other than id
DiffersBesidesId(current_f, desired_f) ==
    \E attribute \in DOMAIN current_f \ {"id"} : current_f[attribute] # desired_f[attribute]

\* C24: for every matched field pair of a form present on both sides, a
\* Field-Update carrying the old and the new field is emitted if and only if
\* the two definitions differ in an attribute other than id; a pair that
\* differs only in id yields no field action.
C24_FieldUpdateIffDiffers ==
    (/\ stage = "done"
     /\ OneFormSnapshot(materialized_boundary)
     /\ OneFormSnapshot(desired_schema)) =>
        \A k \in DOMAIN MatchFields(CurrentFields, DesiredFields).matched :
            LET current_f == CurrentFields[MatchFields(CurrentFields, DesiredFields).matched[k][1]]
                desired_f == DesiredFields[MatchFields(CurrentFields, DesiredFields).matched[k][2]]
            IN FieldUpdatesFor(current_f, desired_f) # {}
                   <=> DiffersBesidesId(current_f, desired_f)

\* ------------------------------------------------------------------------
\* Properties of the record-level differ (SpecRecords)
\* ------------------------------------------------------------------------
CarriesId(records, id) == \E k \in DOMAIN records : RecordId(records[k]) = id

RecordActions(type) == ActionsOfType(changes.actions, type)

\* C5: records are paired only by a shared non-empty @id.  A current record
\* whose non-empty @id no desired record carries yields a Record-Delete, a
\* desired record whose @id is unset or carried by no current record yields a
\* Record-Create with its field map, and every Record-Update addresses a
\* record whose @id a desired record carries.
C5_NoRecordFallback ==
    rstage = "done" =>
        /\ \A i \in DOMAIN cur_records :
              (Truthy(RecordId(cur_records[i])) /\ ~CarriesId(des_records, RecordId(cur_records[i]))) =>
                  /\ ~changes.raised
                  /\ \E a \in Range(RecordActions("DELETE")) : a.record_id = RecordId(cur_records[i])
        /\ \A j \in DOMAIN des_records :
              (~Truthy(RecordId(des_records[j])) \/ ~CarriesId(cur_records, RecordId(des_records[j]))) =>
                  /\ ~changes.raised
                  /\ \E a \in Range(RecordActions("CREATE")) : a.fields = des_records[j]
        /\ \A a \in Range(RecordActions("UPDATE")) : CarriesId(des_records, a.record_id)

\* the equality the claim describes: None and "" are equal, otherwise two
\* values are equal only when they have the same type and the same value
ClaimedEqual(val1, val2) ==
    \/ val1 \in {NoneV, Str("")} /\ val2 \in {NoneV, Str("")}
    \/ val1 = val2

\* C7: for a record matched by its @id and a field the desired record
\* carries, a Record-Update is emitted exactly when the two values differ,
\* where None/absent and "" are equal, None and a non-empty string differ, and
\* values of different types (number 0, string "0") differ.
C7_ValueEquality ==
    (/\ rstage = "done"
     /\ Len(cur_records) = 1 /\ Len(des_records) = 1
     /\ Truthy(RecordId(cur_records[1])) /\ RecordId(cur_records[1]) = RecordId(des_records[1])
     /\ "AMT" \in DOMAIN des_records[1]) =>
        /\ ~changes.raised
        /\ (\E a \in Range(RecordActions("UPDATE")) : a.field_code = "AMT")
              <=> ~ClaimedEqual(Get(cur_records[1], "AMT"), des_records[1]["AMT"])

MatchedRecords == MatchRecords(cur_records, des_records).matched

\* the Record-Updates emitted for field `code` of the record with @id `id`
UpdatesFor(id, code) ==
    {k \in DOMAIN RecordActions("UPDATE") :
        /\ RecordActions("UPDATE")[k].record_id = id
        /\ RecordActions("UPDATE")[k].field_code = code}

\* the current record of pair k is the current record of no other pair with
\* the same @id
OnlyPairOfItsId(k) ==
    \A other \in DOMAIN MatchedRecords :
        other # k => RecordId(cur_records[MatchedRecords[other][1]])
                        # RecordId(cur_records[MatchedRecords[k][1]])

\* what C23 says of the matched pair k
OneUpdatePerDifferingField(k) ==
    LET current_r == cur_records[MatchedRecords[k][1]]
        desired_r == des_records[MatchedRecords[k][2]]
    IN \A field_code \in DOMAIN desired_r :
          IF are_values_equal(Get(current_r, field_code), desired_r[field_code])
          THEN UpdatesFor(RecordId(current_r), field_code) = {}
          ELSE /\ Cardinality(UpdatesFor(RecordId(current_r), field_code)) = 1
               /\ \A u \in UpdatesFor(RecordId(current_r), field_code) :
                     /\ PyEq(RecordActions("UPDATE")[u].old_field_value,
                             Get(current_r, field_code))
                     /\ PyEq(RecordActions("UPDATE")[u].field_value, desired_r[field_code])

\* the records of the platform carry an @id
Identified(records) == \A k \in DOMAIN records : IsStr(RecordId(records[k]))

RECURSIVE SumOver(_, _)
SumOver(f, S) ==
    IF S = {} THEN 0
    ELSE LET x == CHOOSE y \in S : TRUE IN f[x] + SumOver(f, S \ {x})

\* remote requests awaiting their answer: get_user_databases, the
\* get_database_tree of every database task, the get_form_schema / get_form of
\* every form task
InFlight ==
    (IF mstage = "listing" THEN 1 ELSE 0)
    + SumOver([d \in DOMAIN tasks |->
                 (IF tasks[d].phase = "tree" THEN 1 ELSE 0) + tasks[d].schema + tasks[d].records],
              DOMAIN tasks)

\* C10: at every moment of a materialize_boundary call the number of remote
\* requests in flight is at most the capacity of the shared limiter.
C10_InFlightWithinLimit == InFlight <= CONCURRENCY_LIMIT

\* the limiter is exhausted while both database tasks hold a slot awaiting
\* their children, eight form tasks have a request in flight and further form
\* tasks wait for a slot
C10_Witness ==
    /\ permits = 0
    /\ \A d \in RemoteDatabases : d \in DOMAIN tasks /\ tasks[d].phase = "forms"
    /\ InFlight = CONCURRENCY_LIMIT - 2
    /\ \E d \in DOMAIN tasks : tasks[d].queued > 0

\* a remote call of this materialization has raised: get_user_databases, or
\* a call of a task whose exception a join still holds
AnyRaised ==
    \/ mstage = "failed"
    \/ \E d \in DOMAIN tasks : tasks[d].phase = "failed" \/ tasks[d].failed

ChildrenEnded(d) == tasks[d].queued = 0 /\ tasks[d].schema = 0 /\ tasks[d].records = 0

\* this step starts a remote call on behalf of database task d: its own
\* get_database_tree, or get_form_schema / get_form of one of its children
StartsCall(d) ==
    \/ tasks[d].phase = "queued" /\ tasks'[d].phase = "tree"
    \/ tasks'[d].schema > tasks[d].schema
    \/ tasks'[d].records > tasks[d].records

Consumed(expr, j) == Cardinality({m \in 1..(j - 1) : expr[m].kind \in {"any", "literal"}})

\* k contains a match of the pattern: from some position on, every token
\* finds what it stands for at its own offset
ContainsMatch(expr, k) ==
    \E i \in 1..(Len(k) + 1) :
        \A j \in DOMAIN expr :
            CASE expr[j].kind = "bol" -> i + Consumed(expr, j) = 1
              [] expr[j].kind = "eol" -> i + Consumed(expr, j) = Len(k) + 1
              [] expr[j].kind = "any" -> i + Consumed(expr, j) <= Len(k)
              [] OTHER -> /\ i + Consumed(expr, j) <= Len(k)
                          /\ k[i + Consumed(expr, j)] = expr[j].char

Selected(entry) ==
    IF identifier_is_regex
    THEN ContainsMatch(compile(identifier, 1), entry.key)
    ELSE entry.key = identifier

Labels(values) == [n \in DOMAIN values |-> values[n].label]

\* C14: match_identifier returns exactly the items whose key equals the
\* identifier (is_regex false) or contains a match of the pattern (is_regex
\* true), each once and in the order of the dict; for the forms "2.1A_Foo"
\* and "2.1B_Bar" the regex rule "^2\.1" selects both and the exact rule
\* "2.1A_Foo" only the first.
C14_MatchIdentifier ==
    (istage = "done" /\ (identifier_is_regex => Compiles(identifier))) =>
        /\ ~matching_items.raised
        /\ matching_items.values = Values(SelectSeq(items_dict, Selected))
        /\ (items_dict = DictOf(<<Foo, Bar>>) /\ identifier = <<"^", "2", "\\", ".", "1">>
              /\ identifier_is_regex) => Labels(matching_items.values) = <<Foo, Bar>>
        /\ (items_dict = DictOf(<<Foo, Bar>>) /\ identifier = Foo /\ ~identifier_is_regex) =>
              Labels(matching_items.values) = <<Foo>>

C14_Witness ==
    /\ istage = "done"
    /\ identifier_is_regex
    /\ identifier = <<"^", "2", "\\", ".", "1">>
    /\ Len(matching_items.values) = 2

\* ------------------------------------------------------------------------
\* Properties of materialize_boundary on answered calls (SpecResolve)
\* ------------------------------------------------------------------------
\* a rule selects the resource with this id and this label or code
Selects(rule, id, key) ==
    IF rule.identifier_type = "id" THEN id = rule.identifier
    ELSE IF rule.identifier_is_regex
    THEN key # None /\ ContainsMatch(compile(rule.identifier, 1), key)
    ELSE key = rule.identifier

SelectsField(rule, element) ==
    Selects(rule, element.id, IF rule.identifier_type = "code" THEN element.code ELSE element.label)

Count(list, x) == Cardinality({n \in DOMAIN list : list[n] = x})
SameRule(rules, rule) ==
    {n \in DOMAIN rules : /\ rules[n].identifier = rule.identifier
                          /\ rules[n].identifier_type = rule.identifier_type}

SelectedDatabases(rule) ==
    {n \in DOMAIN remote.databases :
        Selects(rule, remote.databases[n].databaseId, remote.databases[n].label)}
SelectedForms(rule, database_id) ==
    {n \in DOMAIN Tree(database_id) :
        /\ Tree(database_id)[n].type = "FORM"
        /\ Selects(rule, Tree(database_id)[n].id, Tree(database_id)[n].label)}
SelectedFields(rule) == {n \in DOMAIN remote.elements : SelectsField(rule, remote.elements[n])}

\* the boundary asks for exactly the form f of the database d, and both exist
OneForm ==
    /\ Len(boundaries) = 1 /\ boundaries[1].identifier = <<"d">>
    /\ Len(boundaries[1].form_boundaries) = 1
    /\ boundaries[1].form_boundaries[1].identifier = <<"f">>
    /\ remote.databases # <<>>

\* C13 as stated: a database, form or field rule that selects no resource
\* does not make materialize_boundary raise, and each time it is resolved one
\* warning naming it is appended.
C13_UnmatchedRuleWarns ==
    vstage = "done" =>
        /\ \A n \in DOMAIN boundaries :
              SelectedDatabases(boundaries[n]) = {} =>
                  /\ ~materialized.raised
                  /\ Count(materialized.warnings, Unmatched("database", boundaries[n], <<>>))
                        = Cardinality(SameRule(boundaries, boundaries[n]))
        /\ \A n \in DOMAIN boundaries : \A d \in DOMAIN materialized.snapshot.databases :
              \A m \in DOMAIN boundaries[n].form_boundaries :
                  SelectedForms(boundaries[n].form_boundaries[m],
                                materialized.snapshot.databases[d].databaseId) = {} =>
                      \E w \in DOMAIN materialized.warnings :
                          materialized.warnings[w] =
                              Unmatched("form", boundaries[n].form_boundaries[m],
                                        materialized.snapshot.databases[d].databaseId)
        /\ OneForm =>
              \A k \in DOMAIN boundaries[1].form_boundaries[1].field_boundaries :
                  SelectedFields(boundaries[1].form_boundaries[1].field_boundaries[k]) = {} =>
                      /\ ~materialized.raised
                      /\ Count(materialized.warnings,
                               Unmatched("field", boundaries[1].form_boundaries[1].field_boundaries[k],
                                         <<"f">>))
                            = Cardinality(SameRule(boundaries[1].form_boundaries[1].field_boundaries,
                                                   boundaries[1].form_boundaries[1].field_boundaries[k]))

\* C15 as stated: with AllRecords among the record boundaries of a matched
\* form every fetched record is in the snapshot, and with ExactIds(S) among
\* them every fetched record whose @id is in S is, whatever the other record
\* boundaries and their order.
C15_RecordBoundariesAdd ==
    (vstage = "done" /\ OneForm /\ ~materialized.raised) =>
        \A k \in DOMAIN boundaries[1].form_boundaries[1].record_boundaries :
            \A n \in DOMAIN remote.records :
                (\/ ~boundaries[1].form_boundaries[1].record_boundaries[k].exact
                 \/ remote.records[n].id \in
                        boundaries[1].form_boundaries[1].record_boundaries[k].record_ids) =>
                    \E r \in DOMAIN materialized.snapshot.databases[1].forms[1].records :
                        materialized.snapshot.databases[1].forms[1].records[r] = remote.records[n]

\* the snapshot holds the database / a database entry with this id holds the
\* form / the form f holds the field
InSnapshot(database_id) ==
    \E d \in DOMAIN materialized.snapshot.databases :
        materialized.snapshot.databases[d].databaseId = database_id
FormInSnapshot(database_id, form_id) ==
    \E d \in DOMAIN materialized.snapshot.databases :
        /\ materialized.snapshot.databases[d].databaseId = database_id
        /\ \E f \in DOMAIN materialized.snapshot.databases[d].forms :
              materialized.snapshot.databases[d].forms[f].id = form_id
FieldInSnapshot(element) ==
    \E k \in DOMAIN materialized.snapshot.databases[1].forms[1].fields :
        materialized.snapshot.databases[1].forms[1].fields[k] = element

\* C25 as stated: when materialize_boundary returns, the snapshot holds, for
\* each database rule, every fetched database the rule selects; for each
\* form rule and each database of the snapshot, every fetched form of that
\* database the rule selects; for each field rule of the form f, every fetched
\* field the rule selects; resources that share a label or a code and forms
\* selected by id included.
C25_EverySelectedResource ==
    (vstage = "done" /\ ~materialized.raised) =>
        /\ \A n \in DOMAIN boundaries : \A db \in SelectedDatabases(boundaries[n]) :
              InSnapshot(remote.databases[db].databaseId)
        /\ \A n \in DOMAIN boundaries : \A d \in DOMAIN materialized.snapshot.databases :
              \A m \in DOMAIN boundaries[n].form_boundaries :
                  \A form \in SelectedForms(boundaries[n].form_boundaries[m],
                                            materialized.snapshot.databases[d].databaseId) :
                      FormInSnapshot(materialized.snapshot.databases[d].databaseId,
                                     Tree(materialized.snapshot.databases[d].databaseId)[form].id)
        /\ OneForm =>
              \A k \in DOMAIN boundaries[1].form_boundaries[1].field_boundaries :
                  \A field \in SelectedFields(boundaries[1].form_boundaries[1].field_boundaries[k]) :
                      FieldInSnapshot(remote.elements[field])

\* no two positions of the list carry the same value
Distinct(list) == \A m, n \in DOMAIN list : list[m] = list[n] => m = n

\* C29: in the snapshot materialize_boundary returns, no database id occurs
\* twice, no form id occurs twice among the forms of a database entry and no
\* field id occurs twice among the fields of a form entry, also when several
\* rules of one level select the same resource.
C29_EachResourceOnce ==
    (vstage = "done" /\ ~materialized.raised) =>
        /\ Distinct([d \in DOMAIN materialized.snapshot.databases |->
                        materialized.snapshot.databases[d].databaseId])
        /\ \A d \in DOMAIN materialized.snapshot.databases :
              /\ Distinct([f \in DOMAIN materialized.snapshot.databases[d].forms |->
                              materialized.snapshot.databases[d].forms[f].id])
              /\ \A f \in DOMAIN materialized.snapshot.databases[d].forms :
                    Distinct([k \in DOMAIN materialized.snapshot.databases[d].forms[f].fields |->
                                 materialized.snapshot.databases[d].forms[f].fields[k].id])

\* ------------------------------------------------------------------------
\* Properties of the Changeset operations (SpecChangeset)
\* ------------------------------------------------------------------------
\* list is first followed by second, each in its own order
Followed(list, first, second) ==
    /\ Len(list) = Len(first) + Len(second)
    /\ \A n \in DOMAIN first : list[n] = first[n]
    /\ \A n \in DOMAIN second : list[Len(first) + n] = second[n]

\* C16: each of the four lists of a + b is a's list followed by b's list,
\* len(a + b) = len(a) + len(b), and the operands are as they were.
C16_Concatenation ==
    [][cstage = "start" =>
          /\ Followed(sum_changeset'.record_actions, self_changeset.record_actions,
                      other_changeset.record_actions)
          /\ Followed(sum_changeset'.field_actions, self_changeset.field_actions,
                      other_changeset.field_actions)
          /\ Followed(sum_changeset'.form_actions, self_changeset.form_actions,
                      other_changeset.form_actions)
          /\ Followed(sum_changeset'.database_actions, self_changeset.database_actions,
                      other_changeset.database_actions)
          /\ Changeset_len(sum_changeset')
                = Changeset_len(self_changeset) + Changeset_len(other_changeset)
          /\ self_changeset' = self_changeset
          /\ other_changeset' = other_changeset]_vars

C16_Witness ==
    /\ cstage = "added"
    /\ Len(self_changeset.record_actions) = MaxActions
    /\ Len(other_changeset.record_actions) = MaxActions
    /\ self_changeset.record_actions # other_changeset.record_actions
    /\ Changeset_len(sum_changeset) = 2 * MaxActions + 2

OptionalAttributes == {"parent_record_id", "field_value", "old_field_value"}

\* C17 as stated: no serialized action carries an attribute that is None,
\* and attributes set to an empty value are kept.
C17_NoneOmitted ==
    cstage = "done" =>
        \A n \in DOMAIN wire.record_actions :
            /\ \A name \in (DOMAIN wire.record_actions[n]) \cap OptionalAttributes :
                  wire.record_actions[n][name] # NoneV
            /\ \A name \in (DOMAIN sum_changeset.record_actions[n]) \cap OptionalAttributes :
                  sum_changeset.record_actions[n][name] = Str("") =>
                      /\ name \in DOMAIN wire.record_actions[n]
                      /\ wire.record_actions[n][name] = Str("")

\* ------------------------------------------------------------------------
\* Properties of AIRScript.execute (SpecExecute)
\* ------------------------------------------------------------------------
Attempts(activity) == Cardinality({n \in DOMAIN started : started[n] = activity})

\* C20: the activities start in the order generate_script_boundary,
\* materialize_boundary, generate_desired_schema, generate_changeset, each
\* at most twice; generate_changeset starts only when the three before it
\* have returned; a run that fails has produced no changeset.
C20_StagesInOrder ==
    /\ \A n, m \in DOMAIN started : n < m => Position(started[n]) <= Position(started[m])
    /\ \A n \in DOMAIN Activities : Attempts(Activities[n]) <= 2
    /\ \A n \in DOMAIN Activities :
          Attempts(Activities[n]) > 0 => \A m \in 1..(n - 1) : Attempts(Activities[m]) > 0
    /\ Attempts("generate_changeset") > 0 =>
          /\ execution.boundary # Unset
          /\ execution.materialized_boundary # Unset
          /\ execution.desired_schema # Unset
    /\ wstage = "failed" => execution.changeset = Unset
    /\ execution.changeset # Unset => wstage = "returned"

C20_Witness ==
    /\ wstage = "failed"
    /\ Attempts("generate_changeset") = 2
    /\ Attempts("materialize_boundary") = 2
    /\ Attempts("generate_script_boundary") = 1

\* ------------------------------------------------------------------------
\* Properties of the matcher (SpecMatch)
\* ------------------------------------------------------------------------
\* how often position i occurs as member `side` of a matched pair
TimesMatched(side, i) == Cardinality({k \in DOMAIN result.matched : result.matched[k][side] = i})
TimesListed(list, i) == Cardinality({k \in DOMAIN list : list[k] = i})

SameId(c, d) == Truthy(c.id) /\ PyEq(c.id, d.id)
HasDuplicateId(list) == \E i, j \in DOMAIN list : i < j /\ SameId(list[i], list[j])
HasSharedKey(list) == \E i, j \in DOMAIN list : i < j /\ list[i].key = list[j].key

\* C1: every position of current occurs exactly once in matched (as first
\* member) and deletes together, and every position of desired exactly once
\* in matched (as second member) and creates together.
C1_Partition ==
    pc = "done" =>
        /\ \A i \in DOMAIN current : TimesMatched(1, i) + TimesListed(result.deletes, i) = 1
        /\ \A j \in DOMAIN desired : TimesMatched(2, j) + TimesListed(result.creates, j) = 1
        /\ \A k \in DOMAIN result.matched :
              result.matched[k][1] \in DOMAIN current /\ result.matched[k][2] \in DOMAIN desired
        /\ Range(result.deletes) \subseteq DOMAIN current
        /\ Range(result.creates) \subseteq DOMAIN desired

\* a run with a duplicate identifier, an empty identifier and a shared
\* fallback key that pairs by identifier and by fallback key and deletes
C1_Witness ==
    /\ pc = "done"
    /\ HasDuplicateId(current) /\ HasSharedKey(desired)
    /\ \E i \in DOMAIN current : current[i].id = Str("")
    /\ Len(result.matched) >= 2 /\ Len(result.deletes) >= 1

\* C2 as stated: a current and a desired element that share a non-empty
\* identifier are paired with each other, whatever their fallback keys.
C2_SameIdPaired ==
    pc = "done" =>
        \A i \in DOMAIN current : \A j \in DOMAIN desired :
            SameId(current[i], desired[j]) => <<i, j>> \in Range(result.matched)

IsLastWithId(list, i) == \A k \in DOMAIN list : k > i => ~SameId(list[i], list[k])

\* C2 amended: for an identifier present on both sides, the last current
\* element and the last desired element carrying it are paired, whatever
\* their fallback keys; an earlier duplicate is never paired by identifier.
C2_LastWithIdPaired ==
    pc = "done" =>
        \A i \in DOMAIN current : \A j \in DOMAIN desired :
            (SameId(current[i], desired[j]) /\ IsLastWithId(current, i) /\ IsLastWithId(desired, j))
                => <<i, j>> \in Range(result.matched)

\* an identifier carried twice by current and by one desired element whose
\* fallback key differs from both: the later current element is the one paired
C2_Witness ==
    /\ pc = "done"
    /\ \E i, k \in DOMAIN current : \E j \in DOMAIN desired :
          /\ i < k /\ SameId(current[i], current[k]) /\ SameId(current[k], desired[j])
          /\ current[k].key # desired[j].key /\ current[i].key # desired[j].key
          /\ <<k, j>> \in Range(result.matched)
          /\ <<i, j>> \notin Range(result.matched)

\* positions consumed by phase 1, stated from the inputs alone
ConsumedCurrent(i) == IsLastWithId(current, i) /\ \E j \in DOMAIN desired : SameId(current[i], desired[j])
ConsumedDesired(j) == IsLastWithId(desired, j) /\ \E i \in DOMAIN current : SameId(desired[j], current[i])
LeftCurrent(key) == {i \in DOMAIN current : ~ConsumedCurrent(i) /\ current[i].key = key}
LeftDesired(key) == {j \in DOMAIN desired : ~ConsumedDesired(j) /\ desired[j].key = key}
Ambiguous(key) == LeftCurrent(key) # {} /\ Cardinality(LeftDesired(key)) > 1

\* C3: when more than one unconsumed desired element shares the fallback key
\* of an unconsumed current element, nothing is paired for that key: each
\* such current element is deleted, each candidate is created, and one
\* warning naming the key is emitted per such current element.
C3_AmbiguousNotPaired ==
    pc = "done" =>
        \A key \in FallbackKeys :
            Ambiguous(key) =>
                /\ LeftCurrent(key) \subseteq Range(result.deletes)
                /\ LeftDesired(key) \subseteq Range(result.creates)
                /\ TimesListed(result.warnings, key) = Cardinality(LeftCurrent(key))

\* the example of the specification: one current and two desired elements,
\* all with an empty identifier and the key "k"
C3_Witness ==
    /\ pc = "done"
    /\ current = << [id |-> Str(""), key |-> "k"] >>
    /\ desired = << [id |-> Str(""), key |-> "k"], [id |-> Str(""), key |-> "k"] >>
    /\ result = [matched |-> <<>>, deletes |-> <<1>>, creates |-> <<1, 2>>, warnings |-> <<"k">>]

\* the pair of positions p joins two elements with one non-empty identifier
SharesIdentifier(p) ==
    Truthy(current[p[1]].id) /\ PyEq(current[p[1]].id, desired[p[2]].id)

\* the pair of positions p joins two elements with non-empty identifiers
\* that differ
DiffersInIdentifier(p) ==
    /\ Truthy(current[p[1]].id)
    /\ Truthy(desired[p[2]].id)
    /\ ~PyEq(current[p[1]].id, desired[p[2]].id)

LastExchange == exchanges[Len(exchanges)]

\* C21: request makes at most `retries` HTTP attempts; every attempt but
\* the last one made timed out; a 401 response raises AuthenticationError
\* and any other response with status >= 400 raises APIError, whichever
\* attempt it answers; APITimeoutError is raised exactly when attempt
\* number `retries` was made and timed out.
C21_AttemptsAndErrors ==
    /\ Len(exchanges) <= retries
    /\ \A i \in 1..(Len(exchanges) - 1) : exchanges[i].ended = "timeout"
    /\ qstage = "done" =>
          /\ request_outcome.raised = "AuthenticationError" <=>
                /\ exchanges # <<>>
                /\ LastExchange.ended = "response"
                /\ LastExchange.response.status_code = 401
          /\ request_outcome.raised = "APIError" <=>
                /\ exchanges # <<>>
                /\ LastExchange.ended = "response"
                /\ LastExchange.response.status_code >= 400
                /\ LastExchange.response.status_code # 401
          /\ request_outcome.raised = "APITimeoutError" <=>
                /\ retries > 0
                /\ Len(exchanges) = retries
                /\ LastExchange.ended = "timeout"

\* the third of three attempts timed out after two timeouts
C21_Witness ==
    /\ qstage = "done"
    /\ retries = 3
    /\ Len(exchanges) = 3
    /\ request_outcome.raised = "APITimeoutError"
    /\ slept = <<1, 2>>

\* ------------------------------------------------------------------------
\* Properties of collect_field_mappings
\* ------------------------------------------------------------------------
\* the forms an element points at
Targets(el) ==
    IF ~el.type_parameters.present THEN {}
    ELSE IF Upper(el.type) \in {"REFERENCE", "MULTISELECTREFERENCE"}
         THEN {RefFormId(r) : r \in Range(el.type_parameters.range)} \ {""}
    ELSE IF Upper(el.type) = "SUBFORM" THEN {el.type_parameters.form_id} \ {""}
    ELSE {}

ElementsOf(form) ==
    IF form \in DOMAIN platform.schemas THEN Range(platform.schemas[form]) ELSE {}

\* the forms reached from `forms` through the fields of the forms in `open`
RECURSIVE Reach(_, _)
Reach(forms, open) ==
    LET further == forms \cup UNION {Targets(el) : el \in UNION {ElementsOf(f) : f \in forms \cap open}}
    IN IF further = forms THEN forms ELSE Reach(further, open)

CodedPairs(forms) ==
    {<<el.id, el.code>> : el \in {e \in UNION {ElementsOf(f) : f \in forms} :
                                     e.code.t = "str" /\ e.code.s # ""}}

MappedPairs == {<<id, mappings[id]>> : id \in DOMAIN mappings}

NoRefetch == \A i, j \in DOMAIN fetches : i # j => fetches[i] # fetches[j]

Known == DOMAIN platform.schemas
Fetched == {form \in Known : form \notin platform.failing}

\* C22 as stated: collect_field_mappings ends for every reference graph,
\* asks for the schema of each form at most once, and returns the id-to-code
\* pairs of every coded field of every form reachable from the start form.
C22_EveryReachableForm ==
    /\ [](NoRefetch /\ (fstage = "returned" =>
                            MappedPairs = CodedPairs(Reach({start_form_id}, Known))))
    /\ <>(fstage = "returned")

\* C22 amended: collect_field_mappings ends for every reference graph, asks
\* for the schema of each form at most once, and returns the id-to-code pairs
\* of every coded field of every form that is reachable from the start form
\* through fields of forms whose schema was fetched and whose own schema was
\* fetched.
C22_EveryFetchedForm ==
    /\ [](NoRefetch /\ (fstage = "returned" =>
                            MappedPairs = CodedPairs(Reach({start_form_id}, Fetched) \cap Fetched)))
    /\ <>(fstage = "returned")

\* a walk that returned from a graph with a self-reference and a cycle, with
\* three schemas asked for and one of them not fetched
C22_Witness ==
    /\ fstage = "returned"
    /\ Len(fetches) = 3
    /\ platform.failing = {"f3"}
    /\ \E el \in ElementsOf("f1") : {"f1", "f2"} \subseteq Targets(el) \cup
                                        UNION {Targets(e) : e \in ElementsOf("f1")}
    /\ \E el \in ElementsOf("f2") : "f1" \in Targets(el)
    /\ Cardinality(MappedPairs) >= 3


\* C26: every call of materialize_boundary ends, returning or raising,
\* whatever the number of matching databases and forms, provided every
\* remote call completes.
C26_AlwaysTerminates == <>(fan_stage \in {"returned", "raised"})


\* C27: once materialize_boundary has returned or raised, every slot its
\* sub-tasks acquired has been released and none of its sub-tasks is still
\* running: the limiter is back at its full capacity.
C27_SlotsReleased ==
    mstage \in {"done", "failed"} =>
        /\ permits = CONCURRENCY_LIMIT
        /\ \A d \in DOMAIN tasks : tasks[d].phase \in {"done", "failed"} /\ ChildrenEnded(d)

\* the call raised after one database task failed in its form fan-out while
\* another one, whose form tasks ran, returned
C27_Witness ==
    /\ mstage = "failed"
    /\ permits = CONCURRENCY_LIMIT
    /\ \E d, e \in DOMAIN tasks :
          /\ tasks[d].phase = "failed" /\ tasks[d].failed /\ tasks[d].finished > 0
          /\ tasks[e].phase = "done" /\ tasks[e].finished > 0


\* C30: validating the dict of to_dict gives back a changeset equal to the
\* serialized one, every action in the list of its level with its operation
\* tag, for every action variant; and the operation tag every action carries
\* is of the type its model declares for TYPE.
C30_RoundTrip ==
    cstage = "validated" =>
        /\ ~restored.raised
        /\ restored.changeset = sum_changeset
        /\ \A name \in DOMAIN sum_changeset : \A n \in DOMAIN sum_changeset[name] :
              sum_changeset[name][n].TYPE = ActionModels[ModelOf(sum_changeset[name][n])].tag

====
